---- MODULE Spec2Model ----
(***************************************************************************)
(* Vocal trainer: the AudioProcessor range tracker (lib/audio) and the     *)
(* pitch utilities (calculateVocalRange, determineVoiceType,               *)
(* frequencyToNote).                                                       *)
(*                                                                         *)
(* Frequencies are integers in hundredths of a hertz (261.63 Hz = 26163),  *)
(* so that every literal of the source is represented exactly.             *)
(* JavaScript's Infinity / -Infinity are the two integers beyond every     *)
(* frequency; Math.min and Math.max then are the integer min and max.      *)
(***************************************************************************)
EXTENDS Integers, Sequences, FiniteSets

(***************************************************************************)
(* Bounds of the model                                                     *)
(***************************************************************************)
\* frames the longest performance of a range-detection session delivers
MaxFrames == 113
\* frames the other performances deliver
ShortFrames == 24
\* analyzers that were started and lost their reference without stop()
MaxOrphans == 1
\* length of the measurement lists handed to calculateVocalRange
MaxLen == 3
\* steps of 25 Hz in the grid of frequencies handed to frequencyToNote
NoteSteps == 80
\* highest octave handed to noteToFrequency
MaxOctave == 8
\* samples in the frames handed to detectPitch
MaxSamples == 4
FrameLength == 128
MaxSequence == 16

(***************************************************************************)
(* Numbers of the JavaScript runtime                                       *)
(***************************************************************************)
Infinity == 2147483647
NegInfinity == -2147483647

Min2(a, b) == IF a <= b THEN a ELSE b
Max2(a, b) == IF a >= b THEN a ELSE b

\* Math.min(...xs) / Math.max(...xs) of a non-empty list
RECURSIVE MathMin(_)
MathMin(xs) == IF Len(xs) = 1 THEN xs[1] ELSE Min2(xs[1], MathMin(Tail(xs)))
RECURSIVE MathMax(_)
MathMax(xs) == IF Len(xs) = 1 THEN xs[1] ELSE Max2(xs[1], MathMax(Tail(xs)))

\* a % b of JavaScript: the remainder has the sign of the dividend
JSRem(a, b) == IF a >= 0 THEN a % b ELSE 0 - ((0 - a) % b)

(***************************************************************************)
(* pitch utilities                                                         *)
(***************************************************************************)
ALL_NOTES == <<"C", "C#", "D", "D#", "E", "F", "F#", "G", "G#", "A", "A#", "B">>

\* ceil(C0 * 2^((96 + n - 0.5) / 12) * 10000), n = 0..11, with C0 = 440 * 2^-4.75:
\* the least frequencies in 1e-4 Hz from which Math.round(12 * log2(f / C0))
\* is 96 + n.
SemitoneBound8 ==
    <<40668415, 43086685, 45648753, 48363169, 51238993, 54285822,
      57513824, 60933774, 64557085, 68395849, 72462878, 76771745>>

\* x is a frequency in 1e-4 Hz below the top of octave 8; doubling it o times
\* brings it into octave 8, so the frequency lies in octave 8 - o.
RECURSIVE OctavesBelow8(_)
OctavesBelow8(x) == IF x >= SemitoneBound8[1] THEN 0 ELSE 1 + OctavesBelow8(2 * x)

RECURSIVE RaisedTo8(_)
RaisedTo8(x) == IF x >= SemitoneBound8[1] THEN x ELSE RaisedTo8(2 * x)

\* the semitone of octave 8 a raised frequency x lies in, 1..12
SemitoneIn8(x) ==
    CHOOSE i \in 1..12 :
        /\ x >= SemitoneBound8[i]
        /\ (i = 12 \/ x < SemitoneBound8[i + 1])

\* Math.round(12 * Math.log2(frequency / C0)) for the frequency x * 2^e, x in
\* 1e-4 Hz with 0 < x < 8133 Hz
RoundedNoteNumScaled(x, e) ==
    12 * (8 - OctavesBelow8(x) + e) + (SemitoneIn8(RaisedTo8(x)) - 1)

\* Math.round(12 * Math.log2(frequency / C0)) for 0 < frequency < 8133 Hz
RoundedNoteNum(frequency) == RoundedNoteNumScaled(frequency * 100, 0)

\* ceil((2^((k - 0.5) / 1200) - 1) * 1e8), k = 1..100: a frequency that exceeds
\* the lower bound of its semitone by this fraction or more lies at least
\* k - 0.5 hundredths of a semitone above the bound
CentThreshold ==
    <<28886, 86681, 144510, 202373, 260269, 318198, 376161, 434157,
      492187, 550250, 608347, 666478, 724642, 782839, 841071, 899336,
      957634, 1015966, 1074332, 1132732, 1191165, 1249633, 1308134, 1366668,
      1425237, 1483839, 1542476, 1601146, 1659850, 1718588, 1777360, 1836166,
      1895006, 1953880, 2012787, 2071729, 2130705, 2189715, 2248760, 2307838,
      2366950, 2426097, 2485277, 2544492, 2603741, 2663025, 2722342, 2781694,
      2841081, 2900501, 2959956, 3019445, 3078969, 3138527, 3198119, 3257746,
      3317407, 3377103, 3436833, 3496598, 3556397, 3616231, 3676099, 3736002,
      3795940, 3855912, 3915919, 3975960, 4036036, 4096147, 4156293, 4216473,
      4276689, 4336939, 4397223, 4457543, 4517897, 4578287, 4638711, 4699170,
      4759664, 4820193, 4880757, 4941356, 5001990, 5062659, 5123363, 5184103,
      5244877, 5305686, 5366531, 5427410, 5488325, 5549275, 5610261, 5671281,
      5732337, 5793428, 5854554, 5915716>>

\* 400 * 25 * 25 * 4 * 25 * 4 = 1e8, in factors that keep every product of the
\* long division below 2^31
DivisionSteps == <<400, 25, 25, 4, 25, 4>>

RECURSIVE LongDivision(_, _, _, _)
LongDivision(q, r, b, steps) ==
    IF steps = <<>> THEN q
    ELSE LongDivision(q * Head(steps) + (r * Head(steps)) \div b,
                      (r * Head(steps)) % b, b, Tail(steps))

\* floor(d * 1e8 / b) for 0 <= d < b
ScaledQuotient(d, b) == LongDivision(0, d, b, DivisionSteps)

\* the cents taken from the distance to the semitone below (Math.floor for
\* Math.round in roundedNoteNum)
CentsOffsetFromFloor(x) ==
    LET b == SemitoneBound8[SemitoneIn8(x)]
        q == ScaledQuotient(x - b, b)
    IN  Cardinality({k \in 1..100 : q >= CentThreshold[k]})

\* Math.round((noteNum - roundedNoteNum) * 100) for a raised frequency x:
\* noteNum - roundedNoteNum + 0.5 is the distance from the lower bound of the
\* semitone, and Math.round(v) is the number of k - 0.5 <= v
CentsOffset(x) ==
    LET b == SemitoneBound8[SemitoneIn8(x)]
        q == ScaledQuotient(x - b, b)
    IN  Cardinality({k \in 1..100 : q >= CentThreshold[k]}) - 50

\* frequencyToNote of the frequency x * 2^e, x in 1e-4 Hz
frequencyToNoteScaled(x, e) ==
    IF x <= 0 THEN [note |-> "A", octave |-> 4, cents |-> 0]
    ELSE LET roundedNoteNum == RoundedNoteNumScaled(x, e)
             noteIndex == JSRem(roundedNoteNum, 12)
         IN  [note   |-> IF noteIndex < 0 THEN "undefined" ELSE ALL_NOTES[noteIndex + 1],
              octave |-> roundedNoteNum \div 12,
              cents  |-> CentsOffset(RaisedTo8(x))]

frequencyToNote(frequency) == frequencyToNoteScaled(frequency * 100, 0)

\* the template string `${note}${octave}`
NoteString(info) == <<info.note, info.octave>>

\* ceil(2^((m - 0.5) / 12) * 10000), m = 0..12: the ratios from which
\* Math.round(12 * log2(ratio)) is m
SemitoneRatio ==
    <<9716, 10294, 10906, 11554, 12241, 12969, 13740, 14557, 15423, 16340,
      17311, 18341, 19431>>

\* Math.round(12 * log2(r / 10000)) of a ratio r given in 1e-4
RECURSIVE RoundedSemitones(_)
RoundedSemitones(r) ==
    IF r <= 0 THEN NegInfinity
    ELSE IF r < SemitoneRatio[1] THEN RoundedSemitones(2 * r) - 12
    ELSE IF r >= SemitoneRatio[13] THEN RoundedSemitones(r \div 2) + 12
    ELSE (CHOOSE m \in 1..12 : r >= SemitoneRatio[m] /\ r < SemitoneRatio[m + 1]) - 1

\* determineVoiceType with the tenor test ahead of the alto test
determineVoiceTypeTenorFirst(lowestFrequency, highestFrequency) ==
    IF lowestFrequency >= 25000 /\ highestFrequency >= 100000 THEN "soprano"
    ELSE IF lowestFrequency >= 20000 /\ highestFrequency >= 85000 THEN "mezzo-soprano"
    ELSE IF lowestFrequency >= 12000 /\ highestFrequency >= 50000 THEN "tenor"
    ELSE IF lowestFrequency >= 17000 /\ highestFrequency >= 65000 THEN "alto"
    ELSE IF lowestFrequency >= 9000 /\ highestFrequency >= 38000 THEN "baritone"
    ELSE IF lowestFrequency >= 8000 /\ highestFrequency >= 32000 THEN "bass"
    ELSE "unknown"

determineVoiceType(lowestFrequency, highestFrequency) ==
    IF lowestFrequency >= 25000 /\ highestFrequency >= 100000 THEN "soprano"
    ELSE IF lowestFrequency >= 20000 /\ highestFrequency >= 85000 THEN "mezzo-soprano"
    ELSE IF lowestFrequency >= 17000 /\ highestFrequency >= 65000 THEN "alto"
    ELSE IF lowestFrequency >= 12000 /\ highestFrequency >= 50000 THEN "tenor"
    ELSE IF lowestFrequency >= 9000 /\ highestFrequency >= 38000 THEN "baritone"
    ELSE IF lowestFrequency >= 8000 /\ highestFrequency >= 32000 THEN "bass"
    ELSE "unknown"

DefaultRange ==
    [lowestNote |-> <<"C", 4>>, highestNote |-> <<"C", 4>>,
     lowestFrequency |-> 26163, highestFrequency |-> 26163,
     rangeInSemitones |-> 0, voiceType |-> "unknown"]

\* the predicate of frequencies.filter(f => f > 0)
IsValidFrequency(f) == f > 0

\* calculateVocalRange taking the extremes of the unfiltered list
calculateVocalRangeUnfiltered(frequencies) ==
    IF Len(frequencies) = 0 THEN DefaultRange
    ELSE LET validFrequencies == SelectSeq(frequencies, IsValidFrequency)
         IN  IF Len(validFrequencies) = 0 THEN DefaultRange
             ELSE LET lowestFrequency == MathMin(frequencies)
                      highestFrequency == MathMax(frequencies)
                  IN  [lowestNote |-> NoteString(frequencyToNote(lowestFrequency)),
                       highestNote |-> NoteString(frequencyToNote(highestFrequency)),
                       lowestFrequency |-> lowestFrequency,
                       highestFrequency |-> highestFrequency,
                       rangeInSemitones |->
                           IF lowestFrequency <= 0 THEN Infinity
                           ELSE RoundedSemitones(
                                    (highestFrequency * 10000) \div lowestFrequency),
                       voiceType |-> determineVoiceType(lowestFrequency, highestFrequency)]

\* calculateVocalRange answering a list without a valid entry with the
\* fallback note of frequencyToNote
calculateVocalRangeFallbackA4(frequencies) ==
    IF Len(frequencies) = 0 THEN DefaultRange
    ELSE LET validFrequencies == SelectSeq(frequencies, IsValidFrequency)
         IN  IF Len(validFrequencies) = 0
             THEN [lowestNote |-> <<"A", 4>>, highestNote |-> <<"A", 4>>,
                   lowestFrequency |-> 44000, highestFrequency |-> 44000,
                   rangeInSemitones |-> 0, voiceType |-> "unknown"]
             ELSE LET lowestFrequency == MathMin(validFrequencies)
                      highestFrequency == MathMax(validFrequencies)
                  IN  [lowestNote |-> NoteString(frequencyToNote(lowestFrequency)),
                       highestNote |-> NoteString(frequencyToNote(highestFrequency)),
                       lowestFrequency |-> lowestFrequency,
                       highestFrequency |-> highestFrequency,
                       rangeInSemitones |->
                           RoundedSemitones((highestFrequency * 10000) \div lowestFrequency),
                       voiceType |-> determineVoiceType(lowestFrequency, highestFrequency)]

calculateVocalRange(frequencies) ==
    IF Len(frequencies) = 0 THEN DefaultRange
    ELSE LET validFrequencies == SelectSeq(frequencies, IsValidFrequency)
         IN  IF Len(validFrequencies) = 0 THEN DefaultRange
             ELSE LET lowestFrequency == MathMin(validFrequencies)
                      highestFrequency == MathMax(validFrequencies)
                  IN  [lowestNote |-> NoteString(frequencyToNote(lowestFrequency)),
                       highestNote |-> NoteString(frequencyToNote(highestFrequency)),
                       lowestFrequency |-> lowestFrequency,
                       highestFrequency |-> highestFrequency,
                       rangeInSemitones |->
                           RoundedSemitones((highestFrequency * 10000) \div lowestFrequency),
                       voiceType |-> determineVoiceType(lowestFrequency, highestFrequency)]

(***************************************************************************)
(* Notes and their nominal frequencies                                     *)
(*                                                                         *)
(* noteToFrequency multiplies a table entry by a power of two; its result  *)
(* is kept as the pair x, e of the entry x (in 1e-4 Hz) and the exponent   *)
(* e, so that no halving loses a digit.                                    *)
(***************************************************************************)
\* NOTE_FREQUENCIES, in the order of ALL_NOTES
NOTE_FREQUENCIES ==
    <<26163, 27718, 29366, 31113, 32963, 34923, 36999, 39200, 41530, 44000,
      46616, 49388>>

LowerCaseNotes == <<"c", "c#", "d", "d#", "e", "f", "f#", "g", "g#", "a", "a#", "b">>

\* note.toUpperCase() on the spellings that occur
ToUpperCase(note) ==
    IF \E i \in 1..12 : LowerCaseNotes[i] = note
    THEN ALL_NOTES[CHOOSE i \in 1..12 : LowerCaseNotes[i] = note]
    ELSE note

IsNoteName(noteName) == \E i \in 1..12 : ALL_NOTES[i] = noteName

RECURSIVE Pow2(_)
Pow2(n) == IF n <= 0 THEN 1 ELSE 2 * Pow2(n - 1)

\* noteToFrequency with the octave difference taken from the 5th octave
noteToFrequencyFromOctave5(note, octave) ==
    LET noteName == ToUpperCase(note)
    IN  IF ~IsNoteName(noteName)
        THEN [threw |-> TRUE, x |-> 0, e |-> 0]
        ELSE [threw |-> FALSE,
              x |-> NOTE_FREQUENCIES[CHOOSE i \in 1..12 : ALL_NOTES[i] = noteName] * 100,
              e |-> octave - 5]

\* noteToFrequency(note, octave): threw, or the frequency x * 2^e
noteToFrequency(note, octave) ==
    LET noteName == ToUpperCase(note)
    IN  IF ~IsNoteName(noteName)
        THEN [threw |-> TRUE, x |-> 0, e |-> 0]
        ELSE [threw |-> FALSE,
              x |-> NOTE_FREQUENCIES[CHOOSE i \in 1..12 : ALL_NOTES[i] = noteName] * 100,
              e |-> octave - 4]

\* x * 2^e (1e-4 Hz) < frequency (1e-2 Hz), and >
ScaledBelow(v, frequency) ==
    IF v.e >= 0 THEN v.x * Pow2(v.e) < frequency * 100
    ELSE v.x < frequency * 100 * Pow2(0 - v.e)
ScaledAbove(v, frequency) ==
    IF v.e >= 0 THEN v.x * Pow2(v.e) > frequency * 100
    ELSE v.x > frequency * 100 * Pow2(0 - v.e)

\* parseNoteString on a note string kept as <<name, octave>>: the pattern
\* /^([A-G]#?)(\d+)$/ takes a letter A..G with an optional sharp, then digits
SharpableLetters == {"C", "C#", "D", "D#", "E", "E#", "F", "F#", "G", "G#",
                     "A", "A#", "B", "B#"}

parseNoteString(noteString) ==
    IF noteString[1] \in SharpableLetters /\ noteString[2] >= 0
    THEN [threw |-> FALSE, note |-> noteString[1], octave |-> noteString[2]]
    ELSE [threw |-> TRUE, note |-> "", octave |-> 0]

(***************************************************************************)
(* calculateOptimalRootNote                                                *)
(*                                                                         *)
(* The midpoint and the comfortable bounds are kept in 1e-3 Hz, where      *)
(* (low + high) / 2 and low + (high - low) * 0.2 are integers.             *)
(***************************************************************************)

\* the adjusted frequency with the comfortable range taken as the upper 40% of
\* the range
AdjustedFreqUpperRange(lowestFreq, highestFreq) ==
    LET middleFreq == 5 * (lowestFreq + highestFreq)
        comfortableLow == 10 * lowestFreq + (highestFreq - lowestFreq) * 6
        comfortableHigh == 10 * lowestFreq + (highestFreq - lowestFreq) * 8
    IN  IF middleFreq < comfortableLow THEN comfortableLow
        ELSE IF middleFreq > comfortableHigh THEN comfortableHigh
        ELSE middleFreq

\* the adjusted frequency in 1e-3 Hz
AdjustedFreq(lowestFreq, highestFreq) ==
    LET middleFreq == 5 * (lowestFreq + highestFreq)
        comfortableLow == 10 * lowestFreq + (highestFreq - lowestFreq) * 2
        comfortableHigh == 10 * lowestFreq + (highestFreq - lowestFreq) * 8
    IN  IF middleFreq < comfortableLow THEN comfortableLow
        ELSE IF middleFreq > comfortableHigh THEN comfortableHigh
        ELSE middleFreq

\* the octave normalization left out
OctaveNormalizedUnshifted(adjustedFreq) ==
    [note |-> frequencyToNoteScaled(adjustedFreq * 10, 0), shift |-> 0]

\* the octave normalization: the note of the adjusted frequency (1e-3 Hz),
\* moved by whole octaves into octave 3..5, and the octaves it was moved by
OctaveNormalized(adjustedFreq) ==
    LET adjustedNoteInfo == frequencyToNoteScaled(adjustedFreq * 10, 0)
    IN  IF adjustedNoteInfo.octave < 3
        THEN [note |-> frequencyToNoteScaled(adjustedFreq * 10, 3 - adjustedNoteInfo.octave),
              shift |-> 3 - adjustedNoteInfo.octave]
        ELSE IF adjustedNoteInfo.octave > 5
        THEN [note |-> frequencyToNoteScaled(adjustedFreq * 10, 5 - adjustedNoteInfo.octave),
              shift |-> 5 - adjustedNoteInfo.octave]
        ELSE [note |-> adjustedNoteInfo, shift |-> 0]

\* C0 = 440 * 2^-4.75 = 16.3516 Hz in 1e-4 Hz
C0 == 163516

\* what frequencyToNote hands to Math.log2: nothing, or frequency / C0 as
\* <<numerator, denominator>>
frequencyToNoteLog2(x) == IF x <= 0 THEN <<>> ELSE << <<x, C0>> >>

\* one run of calculateOptimalRootNote: threw, the note string it returns, and
\* the arguments of every Math.log2 it evaluated on the way, in order
calculateOptimalRootNoteRun(vocalRange) ==
    IF vocalRange.lowestFrequency = 0 \/ vocalRange.highestFrequency = 0
    THEN [threw |-> FALSE, note |-> <<"C", 4>>, clamped |-> FALSE, log2 |-> <<>>,
          adjustedFreq |-> 0]
    ELSE LET lowestFreq == vocalRange.lowestFrequency
             highestFreq == vocalRange.highestFrequency
             adjustedFreq == AdjustedFreq(lowestFreq, highestFreq)
             normalized == OctaveNormalized(adjustedFreq)
             finalNote == NoteString(normalized.note)
             finalNoteInfo == parseNoteString(finalNote)
             finalFreq == noteToFrequency(finalNoteInfo.note, finalNoteInfo.octave)
             log2 == frequencyToNoteLog2(50 * (lowestFreq + highestFreq))
                     \o frequencyToNoteLog2(adjustedFreq * 10)
                     \o (IF normalized.shift # 0
                         THEN frequencyToNoteLog2(adjustedFreq * 10) ELSE <<>>)
         IN  IF finalNoteInfo.threw \/ finalFreq.threw
             THEN [threw |-> TRUE, note |-> finalNote, clamped |-> FALSE, log2 |-> log2,
                   adjustedFreq |-> adjustedFreq]
             ELSE IF ScaledBelow(finalFreq, lowestFreq)
             THEN [threw |-> FALSE, note |-> NoteString(frequencyToNote(lowestFreq)),
                   clamped |-> TRUE,
                   log2 |-> log2 \o frequencyToNoteLog2(lowestFreq * 100),
                   adjustedFreq |-> adjustedFreq]
             ELSE IF ScaledAbove(finalFreq, highestFreq)
             THEN [threw |-> FALSE, note |-> NoteString(frequencyToNote(highestFreq)),
                   clamped |-> TRUE,
                   log2 |-> log2 \o frequencyToNoteLog2(highestFreq * 100),
                   adjustedFreq |-> adjustedFreq]
             ELSE [threw |-> FALSE, note |-> finalNote, clamped |-> FALSE, log2 |-> log2,
                   adjustedFreq |-> adjustedFreq]

calculateOptimalRootNote(vocalRange) == calculateOptimalRootNoteRun(vocalRange).note

(***************************************************************************)
(* The arguments the other pitch utilities hand to Math.log2               *)
(***************************************************************************)
calculateCentsDifferenceLog2(frequency1, frequency2) ==
    IF frequency1 <= 0 \/ frequency2 <= 0 THEN <<>>
    ELSE << <<frequency2, frequency1>> >>

\* frequencyRatio = frequency / targetFrequency, the power of two of the
\* target left out of the denominator
isPitchInToleranceLog2(frequency, targetNote, targetOctave) ==
    LET targetFrequency == noteToFrequency(targetNote, targetOctave)
    IN  IF targetFrequency.threw THEN <<>>
        ELSE << <<frequency * 100, targetFrequency.x>> >>

calculateVocalRangeLog2(frequencies) ==
    IF Len(frequencies) = 0 THEN <<>>
    ELSE LET validFrequencies == SelectSeq(frequencies, IsValidFrequency)
         IN  IF Len(validFrequencies) = 0 THEN <<>>
             ELSE frequencyToNoteLog2(MathMin(validFrequencies) * 100)
                  \o frequencyToNoteLog2(MathMax(validFrequencies) * 100)
                  \o << <<MathMax(validFrequencies), MathMin(validFrequencies)>> >>

(***************************************************************************)
(* detectPitch                                                             *)
(*                                                                         *)
(* Samples are integers in thousandths of full scale, so squares and       *)
(* correlations are in 1e-6; the sample rate is in Hz. The frequency       *)
(* sampleRate / bestLag is kept as the pair of the two.                    *)
(***************************************************************************)
RECURSIVE SumBetween(_, _, _, _)
\* the sum of audioBuffer[i] * audioBuffer[i + lag] for i = first..last, the
\* integer products added by halves
SumBetween(audioBuffer, lag, first, last) ==
    IF first > last THEN 0
    ELSE IF first = last THEN audioBuffer[first] * audioBuffer[first + lag]
    ELSE LET middle == (first + last) \div 2
         IN  SumBetween(audioBuffer, lag, first, middle)
                + SumBetween(audioBuffer, lag, middle + 1, last)

\* the sum of audioBuffer[i] * audioBuffer[i + lag] for i = 1..n
SumOver(audioBuffer, lag, n) == SumBetween(audioBuffer, lag, 1, n)

\* correlations[lag]
Correlation(audioBuffer, lag) == SumOver(audioBuffer, lag, Len(audioBuffer) - lag)

\* rms < threshold with threshold = 0.01: sum / bufferSize < 1e-4; an empty
\* buffer has rms NaN, which is below nothing
RmsBelowThreshold(audioBuffer) ==
    /\ Len(audioBuffer) > 0
    /\ SumOver(audioBuffer, 0, Len(audioBuffer)) < 100 * Len(audioBuffer)

\* the lags the search loop visits
SearchedLags(bufferSize, sampleRate) ==
    {lag \in (sampleRate \div 1100)..((sampleRate \div 80) - 1) : lag < bufferSize}

\* bestLag after the loop: the first lag of the largest correlation, which has
\* to exceed the initial maxCorrelation of 0; -1 without one
BestLag(audioBuffer, sampleRate) ==
    LET lags == SearchedLags(Len(audioBuffer), sampleRate)
        correlations == [lag \in lags |-> Correlation(audioBuffer, lag)]
        rising == {lag \in lags :
                      /\ correlations[lag] > 0
                      /\ \A other \in lags :
                            /\ correlations[other] <= correlations[lag]
                            /\ (other < lag => correlations[other] < correlations[lag])}
    IN  IF rising = {} THEN -1 ELSE CHOOSE lag \in rising : TRUE

\* detectPitch without the validation of the frequency range
detectPitchUnvalidated(audioBuffer, sampleRate) ==
    IF RmsBelowThreshold(audioBuffer) THEN <<>>
    ELSE LET bestLag == BestLag(audioBuffer, sampleRate)
         IN  IF bestLag = -1 \/ Correlation(audioBuffer, bestLag) < 300000 THEN <<>>
             ELSE <<[sampleRate |-> sampleRate, lag |-> bestLag]>>

\* detectPitch(audioBuffer, sampleRate): <<>> is null, <<f>> the frequency
\* f.sampleRate / f.lag
detectPitch(audioBuffer, sampleRate) ==
    IF RmsBelowThreshold(audioBuffer) THEN <<>>
    ELSE LET bestLag == BestLag(audioBuffer, sampleRate)
         IN  IF bestLag = -1 \/ Correlation(audioBuffer, bestLag) < 300000 THEN <<>>
             \* sampleRate / 0 is Infinity, above every bound
             ELSE IF bestLag = 0 THEN <<>>
             ELSE IF sampleRate < 80 * bestLag \/ sampleRate > 1100 * bestLag THEN <<>>
             ELSE <<[sampleRate |-> sampleRate, lag |-> bestLag]>>

(***************************************************************************)
(* Storage: JSON text and the keys of localStorage                          *)
(*                                                                         *)
(* A JSON text is the sequence of the members of the object, each a name   *)
(* and a token; a token is a sequence of strings: the quotes around a      *)
(* string, the digits of a number, or the word null.                       *)
(***************************************************************************)
VOCAL_RANGE == "vocal-trainer-vocal-range"
TRAINING_SESSIONS == "vocal-trainer-training-sessions"
STORAGE_KEYS == {VOCAL_RANGE, TRAINING_SESSIONS}

\* the members of a VocalRange, in the order of their definition
VocalRangeMembers ==
    <<"lowestNote", "highestNote", "lowestFrequency", "highestFrequency",
      "rangeInSemitones", "voiceType">>
NumberMembers == {"lowestFrequency", "highestFrequency", "rangeInSemitones"}

DigitChars == <<"0", "1", "2", "3", "4", "5", "6", "7", "8", "9">>

RECURSIVE DigitsOf(_)
\* the decimal digits of n >= 0
DigitsOf(n) ==
    IF n < 10 THEN <<DigitChars[n + 1]>>
    ELSE Append(DigitsOf(n \div 10), DigitChars[(n % 10) + 1])

\* JSON.stringify of a number: a number that is not finite becomes null
NumberToken(n) ==
    IF n = Infinity \/ n = NegInfinity THEN <<"null">>
    ELSE IF n < 0 THEN <<"-">> \o DigitsOf(0 - n)
    ELSE DigitsOf(n)

StringToken(s) == <<"\"", s, "\"">>

\* JSON.stringify(vocalRange) with the name of the range's voice type left out
JSONStringifyWithoutVoiceType(vocalRange) ==
    [i \in 1..5 |->
        <<VocalRangeMembers[i],
          IF VocalRangeMembers[i] \in NumberMembers
          THEN NumberToken(vocalRange[VocalRangeMembers[i]])
          ELSE StringToken(vocalRange[VocalRangeMembers[i]])>>]

\* JSON.stringify(vocalRange)
JSONStringify(vocalRange) ==
    [i \in 1..Len(VocalRangeMembers) |->
        <<VocalRangeMembers[i],
          IF VocalRangeMembers[i] \in NumberMembers
          THEN NumberToken(vocalRange[VocalRangeMembers[i]])
          ELSE StringToken(vocalRange[VocalRangeMembers[i]])>>]

\* a text that is no JSON: an object that is never closed
Malformed == << <<"{">> >>

DigitValue(c) == (CHOOSE d \in 1..10 : DigitChars[d] = c) - 1

RECURSIVE NumberOf(_)
\* the number a sequence of digits denotes
NumberOf(digits) ==
    IF Len(digits) = 0 THEN 0
    ELSE 10 * NumberOf(SubSeq(digits, 1, Len(digits) - 1)) + DigitValue(digits[Len(digits)])

\* null as a value of JavaScript
Null == <<"null">>

\* the value of a token
TokenValue(token) ==
    IF token = <<"null">> THEN Null
    ELSE IF token[1] = "\"" THEN token[2]
    ELSE IF token[1] = "-" THEN 0 - NumberOf(Tail(token))
    ELSE NumberOf(token)

\* the value of the member called name of a well-formed text
MemberValue(text, name) ==
    TokenValue(text[CHOOSE i \in 1..Len(text) : text[i][1] = name][2])

\* JSON.parse(text): threw a SyntaxError, or the object of the members
JSONParse(text) ==
    IF text = Malformed
    THEN [threw |-> TRUE, value |-> <<>>]
    ELSE [threw |-> FALSE,
          value |-> [name \in {text[i][1] : i \in 1..Len(text)} |-> MemberValue(text, name)]]

(***************************************************************************)
(* AudioProcessor                                                          *)
(***************************************************************************)
VARIABLES
    audioContext,             \* TRUE: this.audioContext is not null
    source,                   \* TRUE: this.source is not null
    meydaAnalyzer,            \* kind of the analyzer the field refers to, or "null"
    orphans,                  \* per kind: started analyzers of the open context that
                              \* the field no longer refers to and nobody stopped
    closedOrphans,            \* such analyzers whose context dispose() has closed
    isProcessing,
    isMonitoring,
    onPitchDetectedCallback,  \* TRUE: the callback is defined
    onMonitoringCallback,
    onRangeProgressCallback,
    onRangeCompleteCallback,
    recordedFrequencies,
    minFrequency,
    maxFrequency,
    stableReadings,
    scenario,                 \* what the singer performs in this session
    frameNo,                  \* frames the range analyzers were handed since the reset
    accepted,                 \* history: the frequencies accepted since the reset
    discarded,                \* history: the reset threw accepted samples away
    rangeStop,                \* history: "no", or "stopped" once stopRangeDetection
                              \* returned, "framesAfter" once a frame came after it
    trace,                    \* what the last operation did to its caller, in order
    frequencies,              \* argument and result of the call of
    range,                    \*   calculateVocalRange
    lowHigh,                  \* arguments and result of the call of
    voiceType,                \*   determineVoiceType
    call,                     \* the function called and its arguments
    returned,                 \* <<>> while the call is pending, then <<its result>>
    forLoop,                  \* <<>>, or <<the index i and the sequence>> of the loop
                              \* generateNoteSequence is in
    localStorage,             \* window.localStorage: the text stored under each key
    lastSaved,                \* history: the last two ranges saved with success that
                              \* nothing removed since, the latest last
    page                      \* the React state and the refs of the vocal-range page

processorVars ==
    <<audioContext, source, meydaAnalyzer, orphans, closedOrphans, isProcessing,
      isMonitoring, onPitchDetectedCallback, onMonitoringCallback,
      onRangeProgressCallback, onRangeCompleteCallback>>
trackerVars == <<recordedFrequencies, minFrequency, maxFrequency, stableReadings>>
sessionVars == <<scenario, frameNo, accepted, discarded, rangeStop>>
callVars == <<call, returned, forLoop>>
storageVars == <<localStorage, lastSaved>>
pureVars == <<frequencies, range, lowHigh, voiceType, callVars, storageVars, page>>
vars == <<processorVars, trackerVars, sessionVars, trace, pureVars>>

maxRecordedFrequencies == 100

Kinds == {"pitch", "monitoring", "range"}
NoOrphans == [k \in Kinds |-> 0]
OrphanCount == orphans["pitch"] + orphans["monitoring"] + orphans["range"]


\* calculatePitchConfidence giving 0.9 to the whole voice range of 80 .. 1100 Hz
calculatePitchConfidenceVoiceRange(frequency) ==
    IF frequency < 8000 \/ frequency > 110000 THEN 3 ELSE 9

\* calculatePitchConfidence with the band of high confidence open at both ends
calculatePitchConfidenceOpenBand(frequency) ==
    IF frequency < 8000 \/ frequency > 110000 THEN 3
    ELSE IF frequency > 10000 /\ frequency < 80000 THEN 9
    ELSE 7

\* confidence in tenths
calculatePitchConfidence(frequency) ==
    IF frequency < 8000 \/ frequency > 110000 THEN 3
    ELSE IF frequency >= 10000 /\ frequency <= 80000 THEN 9
    ELSE 7

processPitchData(frequency) ==
    LET info == IF frequency <= 0 THEN [note |-> "C", octave |-> 4]
                ELSE frequencyToNote(frequency)
    IN  [frequency |-> frequency, note |-> info.note, octave |-> info.octave,
         confidence |-> calculatePitchConfidence(frequency)]


\* getCurrentRange() reporting the length of the buffer as readings
getCurrentRangeOfBuffer ==
    IF minFrequency = Infinity \/ maxFrequency = NegInfinity THEN <<>>
    ELSE <<[min |-> minFrequency, max |-> maxFrequency,
            readings |-> Len(recordedFrequencies)]>>

\* AudioProcessor.getCurrentRange(): <<>> is null, <<r>> is the object r
getCurrentRange ==
    IF minFrequency = Infinity \/ maxFrequency = NegInfinity THEN <<>>
    ELSE <<[min |-> minFrequency, max |-> maxFrequency, readings |-> stableReadings]>>

\* AudioProcessor.isActive()
isActive == isProcessing

(***************************************************************************)
(* What detectPitch returns for the frames of a session: null (NoPitch) or *)
(* a frequency in [80 Hz, 1100 Hz].  A session is one of three             *)
(* performances; each starts with frames that are rejected or lie on the   *)
(* edges of the confidence bands.  "rising" is long enough to overflow the *)
(* rolling buffer, the other two reach the second snapshot.                *)
(***************************************************************************)
\* the null that detectPitch returns
NoPitch == -1

Scenarios == {"lowFirst", "highFirst", "rising"}

Detected(scn, i) ==
    CASE scn = "lowFirst" ->
            IF i = 1 THEN 10000
            ELSE IF i = 2 THEN 9999
            ELSE IF i = 3 THEN NoPitch
            ELSE IF i % 2 = 0 THEN 22000 ELSE 44000
      [] scn = "highFirst" ->
            IF i = 1 THEN 80000
            ELSE IF i = 2 THEN 80001
            ELSE IF i = 3 THEN 110000
            ELSE IF i = 4 THEN 8000
            ELSE 30000 + 1000 * (i % 4)
      [] scn = "rising" -> 8500 + 500 * i

SessionFrames(scn) == IF scn = "rising" THEN MaxFrames ELSE ShortFrames

MonitoredPitches == {NoPitch, 9000, 44000}

ProcessorInit ==
    /\ audioContext = FALSE
    /\ source = FALSE
    /\ meydaAnalyzer = "null"
    /\ orphans = NoOrphans
    /\ closedOrphans = 0
    /\ isProcessing = FALSE
    /\ isMonitoring = FALSE
    /\ onPitchDetectedCallback = FALSE
    /\ onMonitoringCallback = FALSE
    /\ onRangeProgressCallback = FALSE
    /\ onRangeCompleteCallback = FALSE
    /\ recordedFrequencies = <<>>
    /\ minFrequency = Infinity
    /\ maxFrequency = NegInfinity
    /\ stableReadings = 0
    /\ scenario = "rising"
    /\ frameNo = 0
    /\ accepted = <<>>
    /\ discarded = FALSE
    /\ rangeStop = "no"
    /\ trace = <<>>

\* no call of a pitch utility is under way
NoCall ==
    /\ call = [fn |-> "none"]
    /\ returned = <<>>
    /\ forLoop = <<>>

\* the storage of a fresh browser profile
StorageInit ==
    /\ localStorage = [available |-> TRUE, items |-> [key \in STORAGE_KEYS |-> <<>>]]
    /\ lastSaved = <<>>

\* the vocal-range page at its first render: the initial values of its useState
\* and useRef hooks; timers are TRUE while a timeout is pending
InitialPage ==
    [mounted |-> "rendering", audioProcessor |-> FALSE, selectedDeviceId |-> "",
     isAudioReady |-> FALSE, isDetecting |-> FALSE, showResults |-> FALSE,
     isRecording |-> FALSE, isMonitoring |-> FALSE, error |-> <<>>,
     vocalRange |-> <<>>, savedVocalRange |-> <<>>,
     recordingTimer |-> FALSE, errorRecoveryTimer |-> FALSE]

Init ==
    /\ ProcessorInit
    /\ frequencies = <<>>
    /\ range = <<>>
    /\ lowHigh = <<0, 0>>
    /\ voiceType = "none"
    /\ NoCall
    /\ StorageInit
    /\ page = InitialPage

(***************************************************************************)
(* Operations of the caller                                                *)
(***************************************************************************)
\* this.meydaAnalyzer = Meyda.createMeydaAnalyzer(...) followed by start(): the
\* analyzer the field referred to keeps running, nothing refers to it any more
Replaced ==
    IF meydaAnalyzer = "null" THEN orphans
    ELSE [orphans EXCEPT ![meydaAnalyzer] = @ + 1]

CanCreateAnalyzer == meydaAnalyzer = "null" \/ OrphanCount + closedOrphans < MaxOrphans

Thrown == <<[event |-> "throw", message |-> "Audio not initialized. Call initialize() first."]>>

\* initialize() resolving with granted: true
initialize ==
    /\ audioContext' = TRUE
    /\ source' = TRUE
    /\ trace' = <<>>
    /\ UNCHANGED <<meydaAnalyzer, orphans, closedOrphans, isProcessing, isMonitoring,
                   onPitchDetectedCallback, onMonitoringCallback,
                   onRangeProgressCallback, onRangeCompleteCallback>>
    /\ UNCHANGED <<trackerVars, sessionVars, pureVars>>

\* initialize() resolving with granted: false because getUserMedia rejected
initializeDenied ==
    /\ audioContext' = TRUE
    /\ trace' = <<>>
    /\ UNCHANGED <<source, meydaAnalyzer, orphans, closedOrphans, isProcessing,
                   isMonitoring, onPitchDetectedCallback, onMonitoringCallback,
                   onRangeProgressCallback, onRangeCompleteCallback>>
    /\ UNCHANGED <<trackerVars, sessionVars, pureVars>>

startPitchDetection ==
    IF ~audioContext \/ ~source
    THEN /\ trace' = Thrown
         /\ UNCHANGED <<processorVars, trackerVars, sessionVars, pureVars>>
    ELSE /\ CanCreateAnalyzer
         /\ onPitchDetectedCallback' = TRUE
         /\ orphans' = Replaced
         /\ meydaAnalyzer' = "pitch"
         /\ isProcessing' = TRUE
         /\ trace' = <<>>
         /\ UNCHANGED <<audioContext, source, closedOrphans, isMonitoring,
                        onMonitoringCallback, onRangeProgressCallback,
                        onRangeCompleteCallback>>
         /\ UNCHANGED <<trackerVars, sessionVars, pureVars>>

stopPitchDetection ==
    /\ meydaAnalyzer' = "null"
    /\ isProcessing' = FALSE
    /\ trace' = <<>>
    /\ UNCHANGED <<audioContext, source, orphans, closedOrphans, isMonitoring,
                   onPitchDetectedCallback, onMonitoringCallback,
                   onRangeProgressCallback, onRangeCompleteCallback>>
    /\ UNCHANGED <<trackerVars, sessionVars, pureVars>>


\* startMonitoring that only asks for the audio context
startMonitoringWithoutSource ==
    IF ~audioContext
    THEN /\ trace' = Thrown
         /\ UNCHANGED <<processorVars, trackerVars, sessionVars, pureVars>>
    ELSE /\ CanCreateAnalyzer
         /\ onMonitoringCallback' = TRUE
         /\ isMonitoring' = TRUE
         /\ orphans' = Replaced
         /\ meydaAnalyzer' = "monitoring"
         /\ trace' = <<>>
         /\ UNCHANGED <<audioContext, source, closedOrphans, isProcessing,
                        onPitchDetectedCallback, onRangeProgressCallback,
                        onRangeCompleteCallback>>
         /\ UNCHANGED <<trackerVars, sessionVars, pureVars>>

startMonitoring ==
    IF ~audioContext \/ ~source
    THEN /\ trace' = Thrown
         /\ UNCHANGED <<processorVars, trackerVars, sessionVars, pureVars>>
    ELSE /\ CanCreateAnalyzer
         /\ onMonitoringCallback' = TRUE
         /\ isMonitoring' = TRUE
         /\ orphans' = Replaced
         /\ meydaAnalyzer' = "monitoring"
         /\ trace' = <<>>
         /\ UNCHANGED <<audioContext, source, closedOrphans, isProcessing,
                        onPitchDetectedCallback, onRangeProgressCallback,
                        onRangeCompleteCallback>>
         /\ UNCHANGED <<trackerVars, sessionVars, pureVars>>

stopMonitoring ==
    /\ meydaAnalyzer' = IF meydaAnalyzer # "null" /\ isMonitoring THEN "null"
                        ELSE meydaAnalyzer
    /\ isMonitoring' = FALSE
    /\ onMonitoringCallback' = FALSE
    /\ trace' = <<>>
    /\ UNCHANGED <<audioContext, source, orphans, closedOrphans, isProcessing,
                   onPitchDetectedCallback, onRangeProgressCallback,
                   onRangeCompleteCallback>>
    /\ UNCHANGED <<trackerVars, sessionVars, pureVars>>

\* startRangeDetection that resets the buffer and the count, not the extrema
startRangeDetectionKeepsExtrema ==
    IF ~audioContext \/ ~source
    THEN /\ trace' = Thrown
         /\ UNCHANGED <<processorVars, trackerVars, sessionVars, pureVars>>
    ELSE /\ CanCreateAnalyzer
         /\ recordedFrequencies' = <<>>
         /\ stableReadings' = 0
         /\ onRangeProgressCallback' = TRUE
         /\ onRangeCompleteCallback' = TRUE
         /\ orphans' = Replaced
         /\ meydaAnalyzer' = "range"
         /\ isProcessing' = TRUE
         /\ scenario' \in Scenarios
         /\ frameNo' = 0
         /\ accepted' = <<>>
         /\ discarded' = (stableReadings > 0)
         /\ rangeStop' = "no"
         /\ trace' = <<>>
         /\ UNCHANGED <<audioContext, source, closedOrphans, isMonitoring,
                        onPitchDetectedCallback, onMonitoringCallback, pureVars,
                        minFrequency, maxFrequency>>

startRangeDetection ==
    IF ~audioContext \/ ~source
    THEN /\ trace' = Thrown
         /\ UNCHANGED <<processorVars, trackerVars, sessionVars, pureVars>>
    ELSE /\ CanCreateAnalyzer
         /\ recordedFrequencies' = <<>>
         /\ minFrequency' = Infinity
         /\ maxFrequency' = NegInfinity
         /\ stableReadings' = 0
         /\ onRangeProgressCallback' = TRUE
         /\ onRangeCompleteCallback' = TRUE
         /\ orphans' = Replaced
         /\ meydaAnalyzer' = "range"
         /\ isProcessing' = TRUE
         /\ scenario' \in Scenarios
         /\ frameNo' = 0
         /\ accepted' = <<>>
         /\ discarded' = (stableReadings > 0)
         /\ rangeStop' = "no"
         /\ trace' = <<>>
         /\ UNCHANGED <<audioContext, source, closedOrphans, isMonitoring,
                        onPitchDetectedCallback, onMonitoringCallback, pureVars>>

\* stopRangeDetection that leaves the two callbacks registered
stopRangeDetectionKeepsCallbacks ==
    /\ meydaAnalyzer' = "null"
    /\ isProcessing' = FALSE
    /\ trace' = <<>>
    /\ rangeStop' = "stopped"
    /\ UNCHANGED <<audioContext, source, orphans, closedOrphans, isMonitoring,
                   onPitchDetectedCallback, onMonitoringCallback,
                   onRangeProgressCallback, onRangeCompleteCallback>>
    /\ UNCHANGED <<trackerVars, scenario, frameNo, accepted, discarded, pureVars>>

stopRangeDetection ==
    /\ meydaAnalyzer' = "null"
    /\ isProcessing' = FALSE
    /\ onRangeProgressCallback' = FALSE
    /\ onRangeCompleteCallback' = FALSE
    /\ trace' = <<>>
    /\ rangeStop' = "stopped"
    /\ UNCHANGED <<audioContext, source, orphans, closedOrphans, isMonitoring,
                   onPitchDetectedCallback, onMonitoringCallback>>
    /\ UNCHANGED <<trackerVars, scenario, frameNo, accepted, discarded, pureVars>>

\* dispose(): the three stop operations, then the stream, the nodes and the
\* context are released, the callbacks cleared and the recorded data reset.
\* Analyzers nobody refers to are not stopped; their context is closed.
dispose ==
    /\ meydaAnalyzer' = "null"
    /\ closedOrphans' = Min2(MaxOrphans, closedOrphans + OrphanCount)
    /\ orphans' = NoOrphans
    /\ source' = FALSE
    /\ audioContext' = FALSE
    /\ onPitchDetectedCallback' = FALSE
    /\ onMonitoringCallback' = FALSE
    /\ onRangeProgressCallback' = FALSE
    /\ onRangeCompleteCallback' = FALSE
    /\ recordedFrequencies' = <<>>
    /\ minFrequency' = Infinity
    /\ maxFrequency' = NegInfinity
    /\ stableReadings' = 0
    /\ isProcessing' = FALSE
    /\ isMonitoring' = FALSE
    /\ frameNo' = 0
    /\ accepted' = <<>>
    /\ discarded' = (stableReadings > 0)
    /\ rangeStop' = "stopped"
    /\ trace' = <<>>
    /\ UNCHANGED <<scenario, pureVars>>

(***************************************************************************)
(* Callbacks of the running analyzers                                      *)
(***************************************************************************)
Running(kind) == meydaAnalyzer = kind \/ orphans[kind] > 0

\* updateVocalRange() without the return on an empty buffer
updateVocalRangeUnguarded(buf) ==
    IF onRangeCompleteCallback
    THEN <<[event |-> "onComplete", range |-> calculateVocalRange(buf)]>>
    ELSE <<>>

\* updateVocalRange() on the buffer buf: what it hands to the caller
updateVocalRange(buf) ==
    IF Len(buf) = 0 THEN <<>>
    ELSE IF onRangeCompleteCallback
         THEN <<[event |-> "onComplete", range |-> calculateVocalRange(buf)]>>
         ELSE <<>>

\* the push that makes room by dropping the newest entry (pop for shift)
PushedOverNewest(buf, frequency) ==
    Append(IF Len(buf) >= maxRecordedFrequencies THEN SubSeq(buf, 1, Len(buf) - 1)
           ELSE buf, frequency)

Pushed(buf, frequency) ==
    Append(IF Len(buf) >= maxRecordedFrequencies THEN Tail(buf) ELSE buf, frequency)

\* the acceptance test that lets medium confidence (0.7) pass
IsStableReadingLax(result) == result.confidence > 6

\* result.confidence > 0.8
IsStableReading(result) == result.confidence > 8

\* the snapshot test made on the count before the increment
SnapshotDueLate(readings) == (readings - 1) % 10 = 0 /\ readings - 1 > 0

\* stableReadings % 10 === 0 && stableReadings > 0
SnapshotDue(readings) == readings % 10 = 0 /\ readings > 0

\* handleRangeDetection with the auto-stop after 30 stable readings
handleRangeDetectionAutoStop(frequency) ==
    LET result == processPitchData(frequency)
    IN  IF IsStableReading(result)
        THEN /\ recordedFrequencies' = Pushed(recordedFrequencies, frequency)
             /\ minFrequency' = Min2(minFrequency, frequency)
             /\ maxFrequency' = Max2(maxFrequency, frequency)
             /\ stableReadings' = stableReadings + 1
             /\ accepted' = Append(accepted, frequency)
             /\ trace' =
                   (IF onRangeProgressCallback
                    THEN <<[event |-> "onProgress", minFreq |-> minFrequency',
                            maxFreq |-> maxFrequency']>>
                    ELSE <<>>)
                   \o (IF SnapshotDue(stableReadings')
                       THEN updateVocalRange(recordedFrequencies')
                       ELSE <<>>)
             /\ IF stableReadings' >= 30
                THEN /\ isProcessing' = FALSE
                     /\ UNCHANGED <<audioContext, source, meydaAnalyzer, orphans,
                                    closedOrphans, isMonitoring,
                                    onPitchDetectedCallback, onMonitoringCallback,
                                    onRangeProgressCallback, onRangeCompleteCallback>>
                ELSE UNCHANGED processorVars
        ELSE /\ trace' = <<>>
             /\ UNCHANGED <<processorVars, trackerVars, accepted>>

\* handleRangeDetection taking the extrema from the rolling buffer
handleRangeDetectionBufferExtrema(frequency) ==
    LET result == processPitchData(frequency)
    IN  IF IsStableReading(result)
        THEN /\ UNCHANGED processorVars
             /\ recordedFrequencies' = Pushed(recordedFrequencies, frequency)
             /\ minFrequency' = MathMin(recordedFrequencies')
             /\ maxFrequency' = MathMax(recordedFrequencies')
             /\ stableReadings' = stableReadings + 1
             /\ accepted' = Append(accepted, frequency)
             /\ trace' =
                   (IF onRangeProgressCallback
                    THEN <<[event |-> "onProgress", minFreq |-> minFrequency',
                            maxFreq |-> maxFrequency']>>
                    ELSE <<>>)
                   \o (IF SnapshotDue(stableReadings')
                       THEN updateVocalRange(recordedFrequencies')
                       ELSE <<>>)
        ELSE /\ trace' = <<>>
             /\ UNCHANGED <<processorVars, trackerVars, accepted>>

handleRangeDetection(frequency) ==
    LET result == processPitchData(frequency)
    IN  IF IsStableReading(result)
        THEN /\ UNCHANGED processorVars
             /\ recordedFrequencies' = Pushed(recordedFrequencies, frequency)
             /\ minFrequency' = Min2(minFrequency, frequency)
             /\ maxFrequency' = Max2(maxFrequency, frequency)
             /\ stableReadings' = stableReadings + 1
             /\ accepted' = Append(accepted, frequency)
             /\ trace' =
                   (IF onRangeProgressCallback
                    THEN <<[event |-> "onProgress", minFreq |-> minFrequency',
                            maxFreq |-> maxFrequency']>>
                    ELSE <<>>)
                   \o (IF SnapshotDue(stableReadings')
                       THEN updateVocalRange(recordedFrequencies')
                       ELSE <<>>)
        ELSE /\ trace' = <<>>
             /\ UNCHANGED <<processorVars, trackerVars, accepted>>

\* the callback startRangeDetection gives its analyzer, on one frame
rangeAnalyzerCallback ==
    /\ Running("range")
    /\ audioContext
    /\ frameNo < SessionFrames(scenario)
    /\ frameNo' = frameNo + 1
    /\ LET frequency == Detected(scenario, frameNo + 1)
       IN  IF frequency # NoPitch
           THEN handleRangeDetection(frequency)
           ELSE /\ trace' = <<>>
                /\ UNCHANGED <<processorVars, trackerVars, accepted>>
    /\ rangeStop' = IF rangeStop = "no" THEN "no" ELSE "framesAfter"
    /\ UNCHANGED <<scenario, discarded, pureVars>>

\* the callback startPitchDetection gives its analyzer, on one frame
pitchAnalyzerCallback ==
    /\ Running("pitch")
    /\ audioContext
    /\ \E throttled \in BOOLEAN, frequency \in MonitoredPitches :
          trace' = IF ~throttled /\ onPitchDetectedCallback /\ frequency # NoPitch
                   THEN <<[event |-> "onPitchDetected",
                           result |-> processPitchData(frequency)]>>
                   ELSE <<>>
    /\ UNCHANGED <<processorVars, trackerVars, sessionVars, pureVars>>

\* the callback startMonitoring gives its analyzer, on one frame
monitoringAnalyzerCallback ==
    /\ Running("monitoring")
    /\ audioContext
    /\ \E throttled \in BOOLEAN, frequency \in MonitoredPitches :
          trace' = IF /\ ~throttled
                      /\ onMonitoringCallback /\ isMonitoring
                      /\ frequency # NoPitch
                   THEN <<[event |-> "onMonitoring",
                           result |-> processPitchData(frequency)]>>
                   ELSE <<>>
    /\ UNCHANGED <<processorVars, trackerVars, sessionVars, pureVars>>

\* completeRangeDetection(): the recompute on demand, whatever the buffer holds;
\* the trace starts with the call itself and the number of buffered samples
completeRangeDetection ==
    /\ trace' = <<[event |-> "updateVocalRange", buffered |-> Len(recordedFrequencies)]>>
                 \o updateVocalRange(recordedFrequencies)
    /\ UNCHANGED <<processorVars, trackerVars, sessionVars, pureVars>>

Next ==
    \/ initialize
    \/ initializeDenied
    \/ startPitchDetection
    \/ stopPitchDetection
    \/ startMonitoring
    \/ stopMonitoring
    \/ startRangeDetection
    \/ stopRangeDetection
    \/ dispose
    \/ rangeAnalyzerCallback
    \/ pitchAnalyzerCallback
    \/ monitoringAnalyzerCallback

Spec == Init /\ [][Next]_vars

(***************************************************************************)
(* The range tracker with the recompute on demand                          *)
(***************************************************************************)
NextTracker ==
    \/ initialize
    \/ startRangeDetection
    \/ stopRangeDetection
    \/ rangeAnalyzerCallback
    \/ completeRangeDetection

SpecTracker == Init /\ [][NextTracker]_vars

(***************************************************************************)
(* calculateVocalRange on its own: every list of at most MaxLen            *)
(* measurements, valid and invalid ones                                    *)
(***************************************************************************)
Measurements == {-5000, 0, 13081, 26163, 52325, 105000}

MeasurementLists == UNION {[1..n -> Measurements] : n \in 0..MaxLen}

InitRange ==
    /\ ProcessorInit
    /\ frequencies \in MeasurementLists
    /\ range = <<>>
    /\ lowHigh = <<0, 0>>
    /\ voiceType = "none"
    /\ NoCall
    /\ StorageInit
    /\ page = InitialPage

callCalculateVocalRange ==
    /\ range = <<>>
    /\ range' = <<calculateVocalRange(frequencies)>>
    /\ UNCHANGED <<processorVars, trackerVars, sessionVars, trace, frequencies,
                   lowHigh, voiceType, callVars, storageVars, page>>

NextRange == callCalculateVocalRange

SpecRange == InitRange /\ [][NextRange]_vars

(***************************************************************************)
(* determineVoiceType on its own: every pair of the thresholds, their      *)
(* predecessors and the frequencies of the documented examples             *)
(***************************************************************************)
LowFrequencies ==
    {7999, 8000, 8999, 9000, 11999, 12000, 13081, 16999, 17000, 19999, 20000,
     24999, 25000, 26000}
HighFrequencies ==
    {31999, 32000, 37999, 38000, 49999, 50000, 52325, 64999, 65000, 84999,
     85000, 99999, 100000, 105000}

InitVoice ==
    /\ ProcessorInit
    /\ frequencies = <<>>
    /\ range = <<>>
    /\ lowHigh \in LowFrequencies \X HighFrequencies
    /\ voiceType = "none"
    /\ NoCall
    /\ StorageInit
    /\ page = InitialPage

callDetermineVoiceType ==
    /\ voiceType = "none"
    /\ voiceType' = determineVoiceType(lowHigh[1], lowHigh[2])
    /\ UNCHANGED <<processorVars, trackerVars, sessionVars, trace, frequencies,
                   range, lowHigh, callVars, storageVars, page>>

NextVoice == callDetermineVoiceType

SpecVoice == InitVoice /\ [][NextVoice]_vars

(***************************************************************************)
(* The pitch utilities, detectPitch and calculatePitchConfidence on their  *)
(* own: one call per behaviour, its arguments drawn from the sets below    *)
(***************************************************************************)
\* frequencies handed to frequencyToNote and calculatePitchConfidence: without
\* a note (<= 0), below C0, 50 hundredths of a semitone off a note to either
\* side, the bounds of the confidence bands, and a grid of 25 Hz
NoteFrequencies ==
    {-44000, 0, 100, 1500, 1589, 1635, 7999, 8000, 8004, 8007, 9999, 10000,
     26163, 42752, 43999, 44000, 45289, 80000, 80001, 110000, 110001}
    \cup {2500 * k : k \in 1..NoteSteps}

\* bounds of the vocal ranges handed to calculateOptimalRootNote
RangeFrequencies ==
    {-10000, 0, 8000, 8241, 10000, 13081, 26500, 27000, 32963, 52325, 80000,
     110000, 111000, 220000}

GuardedFrequencies == {-44000, 0, 22000, 44000}
TargetNotes == {"A", "a", "H"}
Samples == {-800, 0, 5, 800}
AudioBuffers == UNION {[1..n -> Samples] : n \in 0..MaxSamples}
SampleRates == {100, 1000, 2200, 2300, 44100}

\* frames of FrameLength samples holding one impulse every period samples, at
\* the lowest sample rate an AudioContext supports: at 8000 Hz the lags of the
\* voice range are 7 .. 100
ImpulseSampleRates == {8000}
ImpulsePeriods == {50, 99, 100}
ImpulseFrames ==
    {[i \in 1..FrameLength |-> IF i % period = 1 THEN 800 ELSE 0] : period \in ImpulsePeriods}

PitchCalls ==
    [fn : {"frequencyToNote"}, frequency : NoteFrequencies]
    \cup [fn : {"noteToFrequency"}, note : {ALL_NOTES[i] : i \in 1..12}, octave : 0..MaxOctave]
    \cup [fn : {"calculateOptimalRootNote"},
          lowestFrequency : RangeFrequencies, highestFrequency : RangeFrequencies]
    \cup [fn : {"calculateCentsDifference"},
          frequency1 : GuardedFrequencies, frequency2 : GuardedFrequencies]
    \cup [fn : {"isPitchInTolerance"}, frequency : GuardedFrequencies,
          targetNote : TargetNotes, targetOctave : {4}]
    \cup [fn : {"calculateVocalRange"},
          frequencies : UNION {[1..n -> GuardedFrequencies] : n \in 0..2}]
    \cup [fn : {"calculatePitchConfidence"}, frequency : NoteFrequencies]
    \cup [fn : {"detectPitch"}, audioBuffer : AudioBuffers, sampleRate : SampleRates]
    \cup [fn : {"detectPitch"}, audioBuffer : ImpulseFrames, sampleRate : ImpulseSampleRates]

InitPitch ==
    /\ ProcessorInit
    /\ frequencies = <<>>
    /\ range = <<>>
    /\ lowHigh = <<0, 0>>
    /\ voiceType = "none"
    /\ call \in PitchCalls
    /\ returned = <<>>
    /\ forLoop = <<>>
    /\ StorageInit
    /\ page = InitialPage

Returns(value) ==
    /\ returned = <<>>
    /\ returned' = <<value>>
    /\ UNCHANGED <<processorVars, trackerVars, sessionVars, trace, frequencies,
                   range, lowHigh, voiceType, call, forLoop, storageVars, page>>

callFrequencyToNote ==
    /\ call.fn = "frequencyToNote"
    /\ Returns([value |-> frequencyToNote(call.frequency),
                log2 |-> frequencyToNoteLog2(call.frequency * 100)])

\* the round trip of the note tests: frequencyToNote(noteToFrequency(note, octave))
callNoteToFrequency ==
    /\ call.fn = "noteToFrequency"
    /\ LET frequency == noteToFrequency(call.note, call.octave)
       IN  Returns([threw |-> frequency.threw,
                    frequency |-> frequency,
                    value |-> frequencyToNoteScaled(frequency.x, frequency.e)])

callCalculateOptimalRootNote ==
    /\ call.fn = "calculateOptimalRootNote"
    /\ Returns(calculateOptimalRootNoteRun(
                   [lowestFrequency |-> call.lowestFrequency,
                    highestFrequency |-> call.highestFrequency]))

callCalculateCentsDifference ==
    /\ call.fn = "calculateCentsDifference"
    /\ Returns([log2 |-> calculateCentsDifferenceLog2(call.frequency1, call.frequency2)])

callIsPitchInTolerance ==
    /\ call.fn = "isPitchInTolerance"
    /\ Returns([threw |-> noteToFrequency(call.targetNote, call.targetOctave).threw,
                log2 |-> isPitchInToleranceLog2(call.frequency, call.targetNote,
                                                call.targetOctave)])

callCalculateVocalRangeLog2 ==
    /\ call.fn = "calculateVocalRange"
    /\ Returns([value |-> calculateVocalRange(call.frequencies),
                log2 |-> calculateVocalRangeLog2(call.frequencies)])

callCalculatePitchConfidence ==
    /\ call.fn = "calculatePitchConfidence"
    /\ Returns(calculatePitchConfidence(call.frequency))

callDetectPitch ==
    /\ call.fn = "detectPitch"
    /\ Returns(detectPitch(call.audioBuffer, call.sampleRate))

NextPitch ==
    \/ callFrequencyToNote
    \/ callNoteToFrequency
    \/ callCalculateOptimalRootNote
    \/ callCalculateCentsDifference
    \/ callIsPitchInTolerance
    \/ callCalculateVocalRangeLog2
    \/ callCalculatePitchConfidence
    \/ callDetectPitch

SpecPitch == InitPitch /\ [][NextPitch]_vars

(***************************************************************************)
(* The storage of the vocal range: localStorage is available or not for    *)
(* the whole session, and holds a text under some of the keys              *)
(***************************************************************************)
\* localStorage without an item
NoItems == [key \in STORAGE_KEYS |-> <<>>]

\* the ranges the pages save: results of calculateVocalRange
VocalRanges ==
    {DefaultRange}
    \cup {calculateVocalRange(<<low, high>>) :
              low \in {8241, 13081, 26163}, high \in {32963, 52325, 104650}}

InitStorage ==
    /\ ProcessorInit
    /\ frequencies = <<>>
    /\ range = <<>>
    /\ lowHigh = <<0, 0>>
    /\ voiceType = "none"
    /\ NoCall
    /\ localStorage \in [available : BOOLEAN, items : {NoItems}]
    /\ lastSaved = <<>>
    /\ page = InitialPage

\* isLocalStorageAvailable(): the test item is written and removed again
isLocalStorageAvailable == localStorage.available


\* loadFromStorage(key, null) without the catch: what JSON.parse throws leaves
\* the function
loadFromStorageUncaught(key) ==
    IF ~isLocalStorageAvailable THEN <<>>
    ELSE IF localStorage.items[key] = <<>> THEN <<>>
    ELSE LET parsed == JSONParse(localStorage.items[key][1])
         IN  IF parsed.threw THEN <<"SyntaxError">> ELSE <<parsed.value>>

\* loadFromStorage(key, null): <<>> is null, <<v>> the parsed value v
loadFromStorage(key) ==
    IF ~isLocalStorageAvailable THEN <<>>
    ELSE IF localStorage.items[key] = <<>> THEN <<>>
    ELSE LET parsed == JSONParse(localStorage.items[key][1])
         IN  IF parsed.threw THEN <<>> ELSE <<parsed.value>>

\* the history after a successful save of data: the range saved before, if
\* any, and data
SavedAfter(data) ==
    IF lastSaved = <<>> THEN <<data>> ELSE <<lastSaved[Len(lastSaved)], data>>

StorageUnchanged ==
    UNCHANGED <<processorVars, trackerVars, sessionVars, trace, frequencies,
                range, lowHigh, voiceType, forLoop, page>>

\* saveToStorage(key, data) writing the text of the range without its voice type
saveToStorageTruncated(key, data) ==
    IF ~isLocalStorageAvailable
    THEN /\ returned' = <<[threw |-> TRUE, message |-> "localStorage is not available"]>>
         /\ UNCHANGED storageVars
    ELSE \/ /\ localStorage' =
                  [localStorage EXCEPT !.items[key] = <<JSONStringifyWithoutVoiceType(data)>>]
            /\ lastSaved' = SavedAfter(data)
            /\ returned' = <<[threw |-> FALSE, message |-> ""]>>
         \/ /\ returned' = <<[threw |-> TRUE,
                              message |-> "Storage quota exceeded. Please clear some data."]>>
            /\ UNCHANGED storageVars

\* saveToStorage(key, data): throws a StorageError, or setItem has stored the
\* text; setItem itself may throw QuotaExceededError
saveToStorage(key, data) ==
    IF ~isLocalStorageAvailable
    THEN /\ returned' = <<[threw |-> TRUE, message |-> "localStorage is not available"]>>
         /\ UNCHANGED storageVars
    ELSE \/ /\ localStorage' = [localStorage EXCEPT !.items[key] = <<JSONStringify(data)>>]
            /\ lastSaved' = SavedAfter(data)
            /\ returned' = <<[threw |-> FALSE, message |-> ""]>>
         \/ /\ returned' = <<[threw |-> TRUE,
                              message |-> "Storage quota exceeded. Please clear some data."]>>
            /\ UNCHANGED storageVars

saveVocalRange ==
    \E vocalRange \in VocalRanges :
        /\ call' = [fn |-> "saveVocalRange", vocalRange |-> vocalRange]
        /\ saveToStorage(VOCAL_RANGE, vocalRange)
        /\ StorageUnchanged

loadVocalRange ==
    /\ call' = [fn |-> "loadVocalRange"]
    /\ returned' = <<loadFromStorage(VOCAL_RANGE)>>
    /\ UNCHANGED storageVars
    /\ StorageUnchanged

\* clearAllData(): removeFromStorage for every key
clearAllData ==
    /\ call' = [fn |-> "clearAllData"]
    /\ returned' = <<[threw |-> FALSE, message |-> ""]>>
    /\ IF isLocalStorageAvailable
       THEN /\ localStorage' = [localStorage EXCEPT !.items = NoItems]
            /\ lastSaved' = <<>>
       ELSE UNCHANGED storageVars
    /\ StorageUnchanged

\* something else than saveVocalRange leaves a text that is no JSON under the key
damageVocalRange ==
    /\ localStorage.available
    /\ call' = [fn |-> "setItem"]
    /\ returned' = <<[threw |-> FALSE, message |-> ""]>>
    /\ localStorage' = [localStorage EXCEPT !.items[VOCAL_RANGE] = <<Malformed>>]
    /\ lastSaved' = <<>>
    /\ StorageUnchanged

NextStorage ==
    \/ saveVocalRange
    \/ loadVocalRange
    \/ clearAllData
    \/ damageVocalRange

SpecStorage == InitStorage /\ [][NextStorage]_vars

(***************************************************************************)
(* generateNoteSequence, one pass of its loop per step. A note string is   *)
(* the pair of its name and its octave; a frequency of the sequence,       *)
(* 261.63 * 2^((i - 48) / 12), is recorded as its index i.                 *)
(***************************************************************************)
\* Math.round(12 * Math.log2(frequency / 261.63) + 48) for the frequency
\* x * 2^e of a note, x in 1e-4 Hz
SemitonesFromC4(frequency) ==
    RoundedSemitones((frequency.x * 100) \div 26163) + 12 * frequency.e + 48

SequenceNotes == {<<"A", 3>>, <<"C", 4>>, <<"E", 4>>, <<"C", 5>>}
SequenceSteps == {-1, 0, 1, 2}

InitSequence ==
    /\ ProcessorInit
    /\ frequencies = <<>>
    /\ range = <<>>
    /\ lowHigh = <<0, 0>>
    /\ voiceType = "none"
    /\ call \in [fn : {"generateNoteSequence"}, startNote : SequenceNotes,
                 endNote : SequenceNotes, step : SequenceSteps]
    /\ returned = <<>>
    /\ forLoop = <<>>
    /\ StorageInit
    /\ page = InitialPage

SequenceUnchanged ==
    UNCHANGED <<processorVars, trackerVars, sessionVars, trace, frequencies,
                range, lowHigh, voiceType, call, storageVars, page>>

startSemitones ==
    LET startNoteInfo == parseNoteString(call.startNote)
    IN  SemitonesFromC4(noteToFrequency(startNoteInfo.note, startNoteInfo.octave))

endSemitones ==
    LET endNoteInfo == parseNoteString(call.endNote)
    IN  SemitonesFromC4(noteToFrequency(endNoteInfo.note, endNoteInfo.octave))

direction == IF startSemitones <= endSemitones THEN 1 ELSE -1

\* the test of the for loop: direction * i <= direction * endSemitones
LoopContinues == direction * forLoop[1].i <= direction * endSemitones

\* generateNoteSequence(startNote, endNote, step) up to the first test of its
\* loop; a note string parseNoteString or noteToFrequency rejects makes it throw
generateNoteSequence ==
    /\ call.fn = "generateNoteSequence"
    /\ returned = <<>>
    /\ forLoop = <<>>
    /\ IF \/ parseNoteString(call.startNote).threw
          \/ parseNoteString(call.endNote).threw
          \/ noteToFrequency(call.startNote[1], call.startNote[2]).threw
          \/ noteToFrequency(call.endNote[1], call.endNote[2]).threw
       THEN /\ returned' = <<[threw |-> TRUE, sequence |-> <<>>]>>
            /\ forLoop' = <<>>
       ELSE /\ forLoop' = <<[i |-> startSemitones, sequence |-> <<>>]>>
            /\ returned' = <<>>
    /\ SequenceUnchanged

\* one pass of the loop: sequence.push(frequency); i += step * direction. The
\* model follows at most MaxSequence passes.
pushFrequency ==
    /\ forLoop # <<>>
    /\ returned = <<>>
    /\ LoopContinues
    /\ Len(forLoop[1].sequence) < MaxSequence
    /\ forLoop' = <<[i |-> forLoop[1].i + call.step * direction,
                     sequence |-> Append(forLoop[1].sequence, forLoop[1].i)]>>
    /\ returned' = <<>>
    /\ SequenceUnchanged

\* the test of the loop fails: return sequence
returnSequence ==
    /\ forLoop # <<>>
    /\ returned = <<>>
    /\ ~LoopContinues
    /\ returned' = <<[threw |-> FALSE, sequence |-> forLoop[1].sequence]>>
    /\ forLoop' = forLoop
    /\ SequenceUnchanged

NextSequence ==
    \/ generateNoteSequence
    \/ pushFrequency
    \/ returnSequence

SpecSequence == InitSequence /\ [][NextSequence]_vars

(***************************************************************************)
(* The vocal-range page (app/vocal-range/page.tsx). The fields of page are *)
(* its React state and its refs; a handler is an operator from the state   *)
(* it runs in to the state it leaves. A message is the sequence of its     *)
(* parts, retryAction the name of the function the error carries. The page *)
(* runs the handler of a control it renders, or of an event that can occur *)
(* in its state. saveSuccess, currentPitch, currentRange and isRecovering  *)
(* decide nothing here and are left out.                                   *)
(***************************************************************************)
DeviceIds == {"default", "usb-microphone"}

\* what localStorage holds when the page is opened
PageStorages ==
    [available : BOOLEAN, items : {NoItems}]
    \cup [available : {TRUE},
          items : {[NoItems EXCEPT ![VOCAL_RANGE] = <<text>>] :
                      text \in {JSONStringify(vocalRange) : vocalRange \in VocalRanges}
                               \cup {Malformed}}]

InitPage ==
    /\ ProcessorInit
    /\ frequencies = <<>>
    /\ range = <<>>
    /\ lowHigh = <<0, 0>>
    /\ voiceType = "none"
    /\ NoCall
    /\ localStorage \in PageStorages
    /\ lastSaved = <<>>
    /\ page = InitialPage

PageUnchanged ==
    UNCHANGED <<processorVars, trackerVars, sessionVars, trace, frequencies,
                range, lowHigh, voiceType, callVars, storageVars>>

\* handleError(error, type, recoverable, retryAction): a recoverable error is
\* cleared by the timer after 5 seconds
handleError(view, message, type, recoverable, retryAction) ==
    [view EXCEPT !.error = <<[type |-> type, message |-> message,
                              recoverable |-> recoverable,
                              retryAction |-> retryAction]>>,
                 !.errorRecoveryTimer = recoverable \/ @]

validTransitions ==
    [idle |-> {"initializing", "monitoring"},
     initializing |-> {"idle", "monitoring", "error"},
     monitoring |-> {"idle", "detecting", "error"},
     detecting |-> {"monitoring", "results", "error"},
     results |-> {"idle", "monitoring"},
     error |-> {"idle"}]

\* what validateStateTransition(from, to, action) returns
validateStateTransition(from, to) == to \in validTransitions[from]

getCurrentState(view) ==
    IF view.error # <<>> THEN "error"
    ELSE IF view.showResults THEN "results"
    ELSE IF view.isDetecting THEN "detecting"
    ELSE IF view.isMonitoring THEN "monitoring"
    ELSE IF view.isAudioReady THEN "idle"
    ELSE "initializing"

\* the state validateStateTransition leaves when it returns false
InvalidTransition(view, to, action) ==
    handleError(view, <<"Invalid state transition", getCurrentState(view), to, action>>,
                "processing", FALSE, "none")

resetDetection(view) ==
    [view EXCEPT !.audioProcessor = TRUE, !.isAudioReady = FALSE,
                 !.isDetecting = FALSE, !.showResults = FALSE,
                 !.isRecording = FALSE, !.isMonitoring = FALSE, !.error = <<>>,
                 !.vocalRange = <<>>, !.recordingTimer = FALSE,
                 !.errorRecoveryTimer = FALSE]

\* the listener of devicechange
handleMicrophoneDisconnection(view) ==
    IF view.isDetecting \/ view.isMonitoring
    THEN [handleError(view, <<"Microphone disconnected. Please select your microphone again.">>,
                      "device", TRUE, "resetDetection")
          EXCEPT !.isMonitoring = FALSE, !.isDetecting = FALSE, !.isAudioReady = FALSE]
    ELSE view

\* initializeAudio(deviceId), processor.initialize() resolving with granted
initializeAudio(view, deviceId, granted) ==
    IF ~view.audioProcessor
    THEN handleError(view, <<"Audio processor not initialized">>, "processing",
                     FALSE, "none")
    ELSE IF granted
    THEN [view EXCEPT !.isAudioReady = TRUE, !.error = <<>>, !.isMonitoring = TRUE]
    ELSE handleError(view, <<"Microphone access denied. Please allow microphone access to use this feature.">>,
                     "permission", TRUE, "none")

handleDeviceSelected(view, deviceId, granted) ==
    IF ~validateStateTransition(getCurrentState(view), "initializing")
    THEN InvalidTransition(view, "initializing", "device selection")
    ELSE initializeAudio([view EXCEPT !.selectedDeviceId = deviceId, !.error = <<>>],
                         deviceId, granted)

handlePermissionChange(view, granted) ==
    IF granted
    THEN IF /\ view.isAudioReady /\ ~view.isMonitoring /\ ~view.isDetecting
            /\ view.audioProcessor
         THEN [view EXCEPT !.error = <<>>, !.isMonitoring = TRUE]
         ELSE [view EXCEPT !.error = <<>>]
    ELSE [handleError(view, <<"Microphone access denied. Please allow microphone access to use this feature.">>,
                      "permission", TRUE, "none")
          EXCEPT !.isMonitoring = FALSE, !.isAudioReady = FALSE]

rangeCompleteCallback(view, completed) ==
    [view EXCEPT !.vocalRange = <<completed>>, !.isRecording = FALSE,
                 !.isDetecting = FALSE, !.showResults = TRUE]

stopPractice(view) ==
    IF ~validateStateTransition(getCurrentState(view), "idle")
    THEN InvalidTransition(view, "idle", "stop practice")
    ELSE IF view.audioProcessor /\ view.isMonitoring
    THEN [view EXCEPT !.isMonitoring = FALSE]
    ELSE view

startDetection(view) ==
    IF ~validateStateTransition(getCurrentState(view), "detecting")
    THEN InvalidTransition(view, "detecting", "start detection")
    ELSE IF ~view.audioProcessor \/ ~view.isAudioReady
    THEN handleError(view, <<"Audio not ready. Please select a microphone first.">>,
                     "device", TRUE, "none")
    ELSE [view EXCEPT !.isMonitoring = FALSE, !.isDetecting = TRUE, !.error = <<>>,
                      !.isRecording = TRUE, !.recordingTimer = TRUE]

stopDetection(view) ==
    IF ~validateStateTransition(getCurrentState(view), "results")
    THEN InvalidTransition(view, "results", "stop detection")
    ELSE IF ~view.audioProcessor
    THEN handleError(view, <<"Audio processor not initialized">>, "processing",
                     FALSE, "none")
    ELSE [view EXCEPT !.isRecording = FALSE, !.isDetecting = FALSE,
                      !.showResults = TRUE, !.recordingTimer = FALSE]

\* the four views of the page
SetupView(view) == ~view.isAudioReady /\ ~view.showResults
PracticeView(view) == view.isAudioReady /\ ~view.isDetecting /\ ~view.showResults
DetectionView(view) == view.isDetecting
ResultsView(view) == view.showResults /\ view.vocalRange # <<>>

\* the controls the page renders: the MicrophoneSelector, which calls
\* onDeviceSelected for the device the user picks and for the first device it
\* lists, and the buttons
RenderedControls(view) ==
    {control \in {"MicrophoneSelector", "Retry", "Start Monitoring", "Stop Monitoring",
                  "Start Detection", "Stop Detection", "Detect Again"} :
        CASE control = "MicrophoneSelector" -> SetupView(view) \/ PracticeView(view)
          [] control = "Retry" ->
                 /\ view.error # <<>>
                 /\ view.error[1].recoverable
                 /\ view.error[1].retryAction # "none"
          [] control = "Start Monitoring" -> PracticeView(view) /\ ~view.isMonitoring
          [] control = "Stop Monitoring" -> PracticeView(view) /\ view.isMonitoring
          [] control = "Start Detection" -> PracticeView(view)
          [] control = "Stop Detection" -> DetectionView(view)
          [] control = "Detect Again" -> ResultsView(view)}

\* the state the handler of the control leaves
ControlHandler(view, control, deviceId, granted) ==
    CASE control = "MicrophoneSelector" -> handleDeviceSelected(view, deviceId, granted)
      [] control = "Retry" -> resetDetection(view)
      [] control = "Start Monitoring" ->
             IF view.audioProcessor THEN [view EXCEPT !.isMonitoring = TRUE] ELSE view
      [] control = "Stop Monitoring" -> stopPractice(view)
      [] control = "Start Detection" -> startDetection(view)
      [] control = "Stop Detection" -> stopDetection(view)
      [] control = "Detect Again" -> resetDetection(view)

\* the events that can reach the page: the MicrophoneSelector reporting the
\* permission, a pending timeout expiring, devicechange, and the completion of
\* the range detection under way
PageEvents(view) ==
    {event \in {"granted", "denied", "errorRecoveryTimer", "recordingTimer",
                "devicechange", "onComplete"} :
        CASE event \in {"granted", "denied"} -> SetupView(view) \/ PracticeView(view)
          [] event = "errorRecoveryTimer" -> view.errorRecoveryTimer
          [] event = "recordingTimer" -> view.recordingTimer
          [] event = "devicechange" -> TRUE
          [] event = "onComplete" -> view.isRecording}

\* the state the handler of the event leaves
EventHandler(view, event, completed) ==
    CASE event = "granted" -> handlePermissionChange(view, TRUE)
      [] event = "denied" -> handlePermissionChange(view, FALSE)
      [] event = "errorRecoveryTimer" ->
             [view EXCEPT !.error = <<>>, !.errorRecoveryTimer = FALSE]
      [] event = "recordingTimer" -> stopDetection([view EXCEPT !.recordingTimer = FALSE])
      [] event = "devicechange" -> handleMicrophoneDisconnection(view)
      [] event = "onComplete" -> rangeCompleteCallback(view, completed)

\* the effect of the mount: the processor is created and the saved range loaded
mountPage ==
    /\ page.mounted = "rendering"
    /\ page' = [page EXCEPT !.mounted = "mounted", !.audioProcessor = TRUE,
                            !.savedVocalRange = loadFromStorage(VOCAL_RANGE)]
    /\ PageUnchanged

\* the user, or the MicrophoneSelector itself, uses a control the page renders
controlUsed ==
    /\ page.mounted = "mounted"
    /\ \E control \in RenderedControls(page), deviceId \in DeviceIds, granted \in BOOLEAN :
           page' = ControlHandler(page, control, deviceId, granted)
    /\ PageUnchanged

eventDelivered ==
    /\ page.mounted = "mounted"
    /\ \E event \in PageEvents(page), completed \in VocalRanges :
           page' = EventHandler(page, event, completed)
    /\ PageUnchanged

\* the cleanup of the mount effect
unmountPage ==
    /\ page.mounted = "mounted"
    /\ page' = [page EXCEPT !.mounted = "unmounted", !.recordingTimer = FALSE,
                            !.errorRecoveryTimer = FALSE]
    /\ PageUnchanged

NextPage ==
    \/ mountPage
    \/ controlUsed
    \/ eventDelivered
    \/ unmountPage

SpecPage == InitPage /\ [][NextPage]_vars

(***************************************************************************)
(* Properties                                                              *)
(***************************************************************************)

IsSnapshot(e) == e.event = "onComplete"
IsRangeEvent(e) == e.event \in {"onProgress", "onComplete"}
Snapshots(tr) == SelectSeq(tr, IsSnapshot)
RangeEvents(tr) == SelectSeq(tr, IsRangeEvent)

\* the last n entries of xs
LastN(xs, n) == SubSeq(xs, Len(xs) - n + 1, Len(xs))

\* the step hands a sample to handleRangeDetection and the sample is accepted
AcceptsSample == rangeAnalyzerCallback /\ Len(accepted') = Len(accepted) + 1

\* the step hands a sample of confidence <= 0.8 to handleRangeDetection
RejectsSample ==
    /\ rangeAnalyzerCallback
    /\ Detected(scenario, frameNo + 1) # NoPitch
    /\ calculatePitchConfidence(Detected(scenario, frameNo + 1)) <= 8

\* C1: between startRangeDetection and the stop, a handled sample delivers a
\* snapshot through onComplete exactly when it is accepted and the number of
\* samples accepted since the start becomes a multiple of 10; the snapshot is
\* calculateVocalRange of the rolling buffer as it is after the push.
C1_SnapshotOnEveryTenthSample ==
    [][(rangeAnalyzerCallback /\ rangeStop = "no") =>
          IF AcceptsSample /\ Len(accepted') % 10 = 0
          THEN Snapshots(trace') =
                  <<[event |-> "onComplete",
                     range |-> calculateVocalRange(recordedFrequencies')]>>
          ELSE Snapshots(trace') = <<>>]_vars

C1_Witness ==
    /\ rangeStop = "no"
    /\ Len(accepted) = 20
    /\ Len(Snapshots(trace)) = 1

\* C2: the rolling buffer never holds more than 100 entries and always is the
\* most recent min(n, 100) of the n frequencies accepted in the session, in
\* arrival order.
C2_BufferIsLastHundred ==
    /\ Len(recordedFrequencies) <= 100
    /\ recordedFrequencies = LastN(accepted, Min2(Len(accepted), 100))

C2_Witness ==
    /\ Len(accepted) > 100
    /\ Len(recordedFrequencies) = 100
    /\ recordedFrequencies[1] # accepted[1]

\* C3: a detected frequency of confidence <= 0.8 leaves the buffer, the running
\* extrema and stableReadings as they are and invokes no callback.
C3_LowConfidenceIgnored ==
    [][RejectsSample => (UNCHANGED trackerVars /\ trace' = <<>>)]_vars

C3_Witness ==
    /\ frameNo >= 2
    /\ Detected(scenario, frameNo) # NoPitch
    /\ calculatePitchConfidence(Detected(scenario, frameNo)) <= 8
    /\ stableReadings = 1
    /\ onRangeProgressCallback

\* C4: from a successful startRangeDetection (also one that discards the
\* samples of an earlier session) until the first sample is accepted, the
\* buffer is empty, stableReadings is 0, the extrema are +Infinity and
\* -Infinity and getCurrentRange() is null.
C4_StartResetsTracker ==
    accepted = <<>> =>
        /\ recordedFrequencies = <<>>
        /\ stableReadings = 0
        /\ minFrequency = Infinity
        /\ maxFrequency = NegInfinity
        /\ getCurrentRange = <<>>

C4_Witness ==
    /\ discarded
    /\ meydaAnalyzer = "range"
    /\ isProcessing
    /\ accepted = <<>>
    /\ frameNo > 0

\* C5: handling a frame never ends tracking: it leaves isActive() and the
\* running analyzers as they are; isActive() turns false only in
\* stopRangeDetection, stopPitchDetection or dispose.
C5_NoAutoStop ==
    [][/\ rangeAnalyzerCallback =>
            (isProcessing' = isProcessing /\ UNCHANGED <<meydaAnalyzer, orphans>>)
       /\ (isProcessing /\ ~isProcessing') =>
            (stopRangeDetection \/ stopPitchDetection \/ dispose)]_vars

C5_Witness ==
    /\ isProcessing
    /\ meydaAnalyzer = "range"
    /\ stableReadings > 100
    /\ Len(Snapshots(trace)) = 1

\* C6: once stopRangeDetection has returned, no operation invokes the progress
\* callback or the snapshot callback until the next startRangeDetection,
\* whatever frames arrive.
C6_NoCallbackAfterStop ==
    rangeStop # "no" => RangeEvents(trace) = <<>>

C6_Witness ==
    /\ rangeStop = "framesAfter"
    /\ Len(recordedFrequencies) = 10
    /\ Detected(scenario, frameNo) = recordedFrequencies[10]
    /\ Running("range")

ResetsTracker == startRangeDetection \/ dispose

\* C7: within a session minFrequency never increases and maxFrequency never
\* decreases; every delivered snapshot lies between them, and its extremes are
\* the running extremes while at most 100 samples have been accepted.
C7_RunningExtremaBoundSnapshots ==
    [][/\ ~ResetsTracker => (minFrequency' <= minFrequency /\ maxFrequency' >= maxFrequency)
       /\ \A i \in 1..Len(Snapshots(trace')) :
             LET snapshot == Snapshots(trace')[i].range
             IN  /\ minFrequency' <= snapshot.lowestFrequency
                 /\ snapshot.lowestFrequency <= snapshot.highestFrequency
                 /\ snapshot.highestFrequency <= maxFrequency'
                 /\ Len(accepted') <= 100 =>
                       /\ snapshot.lowestFrequency = minFrequency'
                       /\ snapshot.highestFrequency = maxFrequency']_vars

C7_Witness ==
    /\ Len(accepted) > 100
    /\ Len(Snapshots(trace)) = 1
    /\ Snapshots(trace)[1].range.lowestFrequency > minFrequency

PositiveMeasurements == {frequencies[i] : i \in {j \in 1..Len(frequencies) : frequencies[j] > 0}}

\* C8: for a list with at least one positive frequency calculateVocalRange
\* returns the minimum and the maximum of the positive entries as
\* lowestFrequency and highestFrequency, so lowestFrequency <= highestFrequency
\* and rangeInSemitones >= 0, and voiceType is determineVoiceType of the two.
C8_RangeOfPositiveEntries ==
    (range # <<>> /\ PositiveMeasurements # {}) =>
        LET r == range[1]
        IN  /\ r.lowestFrequency \in PositiveMeasurements
            /\ \A f \in PositiveMeasurements : r.lowestFrequency <= f
            /\ r.highestFrequency \in PositiveMeasurements
            /\ \A f \in PositiveMeasurements : f <= r.highestFrequency
            /\ r.lowestFrequency <= r.highestFrequency
            /\ r.rangeInSemitones >= 0
            /\ r.voiceType = determineVoiceType(r.lowestFrequency, r.highestFrequency)

C8_Witness ==
    /\ frequencies = <<52325, -5000, 13081>>
    /\ range # <<>>
    /\ range[1].rangeInSemitones = 24
    /\ range[1].voiceType = "tenor"

\* the table of the voice types, in the order of their priority
VoiceTable ==
    <<[type |-> "soprano", low |-> 25000, high |-> 100000],
      [type |-> "mezzo-soprano", low |-> 20000, high |-> 85000],
      [type |-> "alto", low |-> 17000, high |-> 65000],
      [type |-> "tenor", low |-> 12000, high |-> 50000],
      [type |-> "baritone", low |-> 9000, high |-> 38000],
      [type |-> "bass", low |-> 8000, high |-> 32000]>>

MatchingRows(low, high) ==
    {i \in 1..Len(VoiceTable) : low >= VoiceTable[i].low /\ high >= VoiceTable[i].high}

FirstMatch(low, high) ==
    IF MatchingRows(low, high) = {} THEN "unknown"
    ELSE VoiceTable[CHOOSE i \in MatchingRows(low, high) :
                        \A j \in MatchingRows(low, high) : i <= j].type

\* C9: determineVoiceType returns the type of the first row of the table that
\* both arguments reach, 'unknown' when there is none; (260, 1050) is a
\* soprano and (130.81, 523.25) a tenor.
C9_FirstMatchingVoiceType ==
    voiceType # "none" =>
        /\ voiceType = FirstMatch(lowHigh[1], lowHigh[2])
        /\ lowHigh = <<26000, 105000>> => voiceType = "soprano"
        /\ lowHigh = <<13081, 52325>> => voiceType = "tenor"

C9_Witness ==
    /\ lowHigh = <<26000, 105000>>
    /\ voiceType = "soprano"
    /\ Cardinality(MatchingRows(lowHigh[1], lowHigh[2])) = 6

\* C10: for the empty list and for a list without a positive frequency
\* calculateVocalRange returns the neutral default: C4 and 261.63 Hz at both
\* ends, 0 semitones, voice type 'unknown'.
C10_NeutralDefault ==
    (range # <<>> /\ PositiveMeasurements = {}) =>
        range[1] = [lowestNote |-> <<"C", 4>>, highestNote |-> <<"C", 4>>,
                    lowestFrequency |-> 26163, highestFrequency |-> 26163,
                    rangeInSemitones |-> 0, voiceType |-> "unknown"]

C10_Witness ==
    /\ frequencies = <<0, -5000>>
    /\ range # <<>>
    /\ range[1].lowestFrequency = 26163

IsRecompute(e) == e.event = "updateVocalRange"
IsThrow(e) == e.event = "throw"

\* the step is a recompute on demand that finds the rolling buffer empty
RecomputesEmptyBuffer == completeRangeDetection /\ recordedFrequencies = <<>>

Called(fn) == call.fn = fn /\ returned # <<>>

\* the call handed calculateOptimalRootNote a range with 0 < low <= high
OrderedRange ==
    /\ Called("calculateOptimalRootNote")
    /\ 0 < call.lowestFrequency
    /\ call.lowestFrequency <= call.highestFrequency

\* C12 as stated: for 0 < lowestFrequency <= highestFrequency the nominal
\* frequency of the note calculateOptimalRootNote returns lies within
\* [lowestFrequency, highestFrequency].
C12_RootNoteWithinRange ==
    OrderedRange =>
        /\ ~returned[1].threw
        /\ LET f == noteToFrequency(returned[1].note[1], returned[1].note[2])
           IN  /\ ~f.threw
               /\ ~ScaledBelow(f, call.lowestFrequency)
               /\ ~ScaledAbove(f, call.highestFrequency)

\* C13 as stated: for 0 < lowestFrequency <= highestFrequency the octave of the
\* note calculateOptimalRootNote returns is within [3, 5].
C13_RootOctaveThreeToFive ==
    OrderedRange => ~returned[1].threw /\ returned[1].note[2] \in 3..5

\* C13, amended: for 0 < lowestFrequency <= highestFrequency the octave
\* normalization leaves a note of octave 3, 4 or 5, and that note is returned
\* whenever its nominal frequency lies within the range; when it lies below
\* lowestFrequency (above highestFrequency) the function returns the note
\* nearest lowestFrequency (highestFrequency) instead, whatever its octave.
C13_RootOctaveUnlessClamped ==
    OrderedRange =>
        LET normalized ==
                OctaveNormalized(AdjustedFreq(call.lowestFrequency,
                                              call.highestFrequency)).note
            nominal == noteToFrequency(normalized.note, normalized.octave)
        IN  /\ ~returned[1].threw
            /\ normalized.octave \in 3..5
            /\ ~nominal.threw
            /\ returned[1].note =
                  IF ScaledBelow(nominal, call.lowestFrequency)
                  THEN NoteString(frequencyToNote(call.lowestFrequency))
                  ELSE IF ScaledAbove(nominal, call.highestFrequency)
                  THEN NoteString(frequencyToNote(call.highestFrequency))
                  ELSE NoteString(normalized)

\* the normalization moved the note by whole octaves and the moved note, lying
\* within the range, was returned
C13_Witness ==
    /\ OrderedRange
    /\ ~returned[1].clamped
    /\ OctaveNormalized(AdjustedFreq(call.lowestFrequency,
                                     call.highestFrequency)).shift # 0
    /\ returned[1].note[2] \in 3..5

\* frequencyToNote was called on a positive frequency
NoteOfPositive == Called("frequencyToNote") /\ call.frequency > 0

\* C14 as stated: for every frequency > 0 frequencyToNote returns one of the 12
\* names, the one at index rounded mod 12 of the table, and the octave
\* floor(rounded / 12), rounded being the nearest semitone index above C0; and
\* 440 Hz is A4 with cents 0.
C14_NoteOfEveryPositiveFrequency ==
    NoteOfPositive =>
        LET rounded == RoundedNoteNum(call.frequency)
            value == returned[1].value
        IN  /\ IsNoteName(value.note)
            /\ value.note = ALL_NOTES[(rounded % 12) + 1]
            /\ value.octave = rounded \div 12
            /\ (call.frequency = 44000 =>
                   value = [note |-> "A", octave |-> 4, cents |-> 0])

\* C15 as stated: for every frequency > 0 the cents of frequencyToNote is an
\* integer of (-50, 50], never -50.
C15_CentsHalfOpen == NoteOfPositive => returned[1].value.cents \in -49..50

\* C15, amended: for every frequency > 0 the cents of frequencyToNote is an
\* integer of the closed interval [-50, 50]; both ends occur.
C15_CentsClosed == NoteOfPositive => returned[1].value.cents \in -50..50

\* frequencyToNote has answered a positive frequency with cents -50
C15_Witness == NoteOfPositive /\ returned[1].value.cents = -50

\* C16: for every name of the table and every octave from 0 on,
\* frequencyToNote(noteToFrequency(name, octave)) is the same name and octave
\* with cents of magnitude at most 1.
C16_NoteRoundTrip ==
    Called("noteToFrequency") =>
        /\ ~returned[1].threw
        /\ returned[1].value.note = call.note
        /\ returned[1].value.octave = call.octave
        /\ returned[1].value.cents \in -1..1

\* the round trip was made for a sharp of the highest octave
C16_Witness ==
    /\ Called("noteToFrequency")
    /\ call.note = "G#"
    /\ call.octave = MaxOctave
    /\ returned[1].value.note = "G#"

\* a / b > 0
PositiveRatio(arg) == (arg[1] > 0 /\ arg[2] > 0) \/ (arg[1] < 0 /\ arg[2] < 0)

\* C17 as stated: frequencyToNote, calculateCentsDifference, calculateVocalRange,
\* isPitchInTolerance and calculateOptimalRootNote hand Math.log2 positive
\* arguments only, whatever frequency the caller supplies.
C17_Log2OnlyOnPositive ==
    \A fn \in {"frequencyToNote", "calculateCentsDifference", "calculateVocalRange",
               "isPitchInTolerance", "calculateOptimalRootNote"} :
        Called(fn) =>
            \A i \in 1..Len(returned[1].log2) : PositiveRatio(returned[1].log2[i])

\* C18: detectPitch returns null or sampleRate / lag for one integer lag >= 1
\* with 80 <= sampleRate / lag <= 1100, and null for every frame whose RMS is
\* below 0.01.
C18_DetectPitchResult ==
    Called("detectPitch") =>
        LET found == returned[1]
        IN  /\ \/ found = <<>>
               \/ /\ Len(found) = 1
                  /\ found[1].sampleRate = call.sampleRate
                  /\ found[1].lag \in 1..Len(call.audioBuffer)
                  /\ 80 * found[1].lag <= call.sampleRate
                  /\ call.sampleRate <= 1100 * found[1].lag
            /\ (RmsBelowThreshold(call.audioBuffer) => found = <<>>)

\* detectPitch has found a pitch
C18_Witness == Called("detectPitch") /\ returned[1] # <<>>

\* C19 as stated: calculatePitchConfidence is within [0, 1], 0.9 for every
\* frequency of [100, 800] and 0.3 for every frequency of [80, 100) and of
\* (800, 1100].
C19_ConfidenceBandsAsStated ==
    Called("calculatePitchConfidence") =>
        /\ returned[1] \in 0..10
        /\ (call.frequency >= 10000 /\ call.frequency <= 80000 => returned[1] = 9)
        /\ (call.frequency >= 8000 /\ call.frequency < 10000 => returned[1] = 3)
        /\ (call.frequency > 80000 /\ call.frequency <= 110000 => returned[1] = 3)

\* C19, amended: calculatePitchConfidence is 0.9 for every frequency of
\* [100, 800], 0.7 for every frequency of [80, 100) and of (800, 1100], and 0.3
\* for every frequency below 80 or above 1100.
C19_ConfidenceBands ==
    Called("calculatePitchConfidence") =>
        returned[1] =
            IF call.frequency >= 10000 /\ call.frequency <= 80000 THEN 9
            ELSE IF call.frequency >= 8000 /\ call.frequency <= 110000 THEN 7
            ELSE 3

\* the confidence of the two ends of the band of high confidence and of a
\* frequency of the band next to it has been returned
C19_Witness ==
    /\ Called("calculatePitchConfidence")
    /\ call.frequency \in {8000, 10000, 80000, 110000}

C21_LoadReturnsNull ==
    (/\ Called("loadVocalRange")
     /\ \/ ~localStorage.available
        \/ localStorage.items[VOCAL_RANGE] = <<>>
        \/ localStorage.items[VOCAL_RANGE] = <<Malformed>>)
        => returned[1] = <<>>

\* the load of a text that is no JSON has returned null
C21_Witness ==
    /\ Called("loadVocalRange")
    /\ localStorage.items[VOCAL_RANGE] = <<Malformed>>
    /\ returned[1] = <<>>

\* the lags of the closed interval [minLag, maxLag]
ClosedLags(sampleRate) == (sampleRate \div 1100)..(sampleRate \div 80)

\* r[lag], the sum over the pairs the frame holds (none from lag = length on)
LagCorrelation(audioBuffer, lag) ==
    IF lag >= Len(audioBuffer) THEN 0 ELSE Correlation(audioBuffer, lag)

\* the lags of the closed interval with the largest r[lag]
MaximizingLags(audioBuffer, sampleRate) ==
    LET r == [lag \in ClosedLags(sampleRate) |-> LagCorrelation(audioBuffer, lag)]
        values == {r[lag] : lag \in ClosedLags(sampleRate)}
        maximum == CHOOSE v \in values : \A w \in values : w <= v
    IN  {lag \in ClosedLags(sampleRate) : r[lag] = maximum}

\* the frequency sampleRate / lag lies in [80, 1100]
InVoiceRange(sampleRate, lag) ==
    lag > 0 /\ 80 * lag <= sampleRate /\ sampleRate <= 1100 * lag

\* C22: for a frame that is not silent, detectPitch takes a lag of the largest
\* autocorrelation r[lag] among all the lags of the closed interval
\* [floor(sampleRate / 1100), floor(sampleRate / 80)]: it returns absent only
\* when that maximum is below 0.3 (or the frequency of the lag is outside the
\* voice range), and a frequency it returns belongs to such a lag.
C22_ClosedLagInterval ==
    (Called("detectPitch") /\ ~RmsBelowThreshold(call.audioBuffer)) =>
        LET best == MaximizingLags(call.audioBuffer, call.sampleRate)
            maximum == LagCorrelation(call.audioBuffer, CHOOSE lag \in best : TRUE)
        IN  /\ maximum < 300000 => returned[1] = <<>>
            /\ returned[1] = <<>> =>
                  \/ maximum < 300000
                  \/ \E lag \in best : ~InVoiceRange(call.sampleRate, lag)
            /\ returned[1] # <<>> => returned[1][1].lag \in best

C24_DisposeStopsEveryAnalyzer ==
    [][dispose => OrphanCount = 0]_vars

\* C25: with monitoring and range detection both started, stopMonitoring() ends
\* the monitoring only: the analyzer of the range detection keeps running, and
\* the tracker and the progress and snapshot callbacks stay as they are, so
\* that accepted samples are tracked and reported until stopRangeDetection.
C25_StopMonitoringKeepsRangeDetection ==
    [][(stopMonitoring /\ isMonitoring /\ Running("range")) =>
          /\ Running("range")'
          /\ UNCHANGED <<onRangeProgressCallback, onRangeCompleteCallback, trackerVars>>]_vars

\* C26: in every state of an AudioProcessor stableReadings is the number of
\* samples accepted since the last startRangeDetection or dispose, the rolling
\* buffer holds min(stableReadings, 100) entries, and getCurrentRange() is not
\* null exactly when stableReadings >= 1; then its min is at most its max and
\* its readings are stableReadings.
C26_StableReadingsCountAccepted ==
    /\ stableReadings = Len(accepted)
    /\ Len(recordedFrequencies) = Min2(stableReadings, maxRecordedFrequencies)
    /\ (getCurrentRange # <<>>) <=> (stableReadings >= 1)
    /\ getCurrentRange # <<>> =>
          /\ getCurrentRange[1].min <= getCurrentRange[1].max
          /\ getCurrentRange[1].readings = stableReadings

\* more samples were accepted than the buffer holds
C26_Witness ==
    /\ stableReadings > maxRecordedFrequencies
    /\ Len(recordedFrequencies) = maxRecordedFrequencies
    /\ getCurrentRange # <<>>
    /\ getCurrentRange[1].min < getCurrentRange[1].max
    /\ getCurrentRange[1].readings = Len(accepted)

\* a start operation of the AudioProcessor is called
StartCalled == startPitchDetection \/ startMonitoring \/ startRangeDetection

\* C27: the three start operations throw 'Audio not initialized. Call
\* initialize() first.' when no initialize() has succeeded since the
\* construction or the last dispose(), and then leave the tracker, the flags
\* isProcessing and isMonitoring and the four callbacks as they are. The
\* microphone source exists from a successful initialize() (and by nothing
\* else) until dispose(), so its absence is that condition.
C27_StartThrowsUninitialized ==
    [][/\ dispose => ~source'
       /\ (source' /\ ~source) => initialize
       /\ (~source' /\ source) => dispose
       /\ (StartCalled /\ ~source) =>
             /\ trace' = Thrown
             /\ UNCHANGED <<trackerVars, isProcessing, isMonitoring,
                            onPitchDetectedCallback, onMonitoringCallback,
                            onRangeProgressCallback, onRangeCompleteCallback>>]_vars

\* a start operation has thrown after a dispose() that threw samples away
C27_Witness ==
    /\ trace = Thrown
    /\ ~source
    /\ ~audioContext
    /\ discarded

\* C28: for 0 < lowestFrequency <= highestFrequency the midpoint
\* (low + high) / 2 lies within [low + 0.2 (high - low), low + 0.8 (high - low)],
\* so the adjustment to the comfortable range leaves it as it is and the note
\* of calculateOptimalRootNote is derived from the midpoint (frequencies in
\* 1e-3 Hz).
C28_MidpointIsComfortable ==
    OrderedRange =>
        LET low == call.lowestFrequency
            high == call.highestFrequency
            middleFreq == 5 * (low + high)
        IN  /\ 10 * low + 2 * (high - low) <= middleFreq
            /\ middleFreq <= 10 * low + 8 * (high - low)
            /\ returned[1].adjustedFreq = middleFreq
            /\ ~returned[1].clamped =>
                  returned[1].note = NoteString(OctaveNormalized(middleFreq).note)

\* the note of the midpoint of a range of more than one frequency was returned
C28_Witness ==
    /\ OrderedRange
    /\ call.lowestFrequency < call.highestFrequency
    /\ returned[1].adjustedFreq = 5 * (call.lowestFrequency + call.highestFrequency)
    /\ ~returned[1].clamped
    /\ returned[1].note =
          NoteString(frequencyToNoteScaled(
                         50 * (call.lowestFrequency + call.highestFrequency), 0))

\* the passes the loop of generateNoteSequence has to make until its test fails
RemainingSemitones(loop) == direction * (endSemitones - loop[1].i)

\* C29: generateNoteSequence terminates with a finite list for all valid note
\* strings and every integer step, 0 and negative steps included: every pass
\* of its loop brings the index closer to the end note, past which the loop
\* ends.
C29_SequenceTerminates ==
    [][pushFrequency => RemainingSemitones(forLoop') < RemainingSemitones(forLoop)]_vars

\* the state of the page the claim starts from: mounted, audio not ready, not
\* monitoring, not detecting, no results, no error
PageIsInitial ==
    /\ page.mounted = "mounted"
    /\ ~page.isAudioReady /\ ~page.isMonitoring /\ ~page.isDetecting
    /\ ~page.showResults /\ page.error = <<>>

\* C30: selecting a microphone while the page is in its initial state passes
\* validateStateTransition and starts the initialization of the audio: the
\* device is selected, and the page is ready and monitoring or shows the
\* refused permission
C30_DeviceSelectionStartsInitialization ==
    [][(controlUsed /\ PageIsInitial)
       => /\ validateStateTransition(getCurrentState(page), "initializing")
          /\ page'.selectedDeviceId # ""
          /\ \/ page'.isAudioReady /\ page'.isMonitoring
             \/ page'.error # <<>> /\ page'.error[1].type = "permission"]_vars

\* what the rejected selection leaves: no user action or event makes the page
\* ready, monitoring or detecting
PageNeverLeavesSetup ==
    /\ ~page.isAudioReady /\ ~page.isMonitoring /\ ~page.isDetecting
    /\ page.selectedDeviceId = ""

====
